---- MODULE Spec2Model ----
(***************************************************************************)
(* State-machine model of the ParyantaOS exokernel core:                   *)
(*   - capability manager      (src/src/caps/mod.rs, caps/manager.rs)      *)
(*   - object store            (src/src/objstore/mod.rs, objstore/store.rs)*)
(*   - capability-gated facade (src/src/objstore/gated.rs)                 *)
(*   - cooperative scheduler   (src/src/task/mod.rs, task/scheduler.rs)    *)
(*   - interrupts and locks    (src/src/arch/interrupts.rs, serial.rs)     *)
(***************************************************************************)
EXTENDS Integers, Sequences, FiniteSets, TLC

VARIABLES
    caps,           \* MANAGER.caps : Option<BTreeMap<CapId, Capability>>
    NEXT_CAP_ID,    \* caps/mod.rs static counter
    parent_of,      \* history: CapId of the parent a capability was restricted from
    revoke_ok,      \* history: CapIds for which revoke returned Ok
    objects,        \* STORE.objects   : Option<BTreeMap<ObjId, Object>>
    tag_index,      \* STORE.tag_index : Option<BTreeMap<String, Vec<ObjId>>>
    tasks,          \* Scheduler.tasks : VecDeque<Task>
    NEXT_ID,        \* task/mod.rs static counter of TaskIds
    FUEL_REMAINING, \* task/scheduler.rs static fuel counter
    pc,             \* position of the main flow inside Scheduler::run
    task,           \* the task popped for the current scheduler turn
    spawned,        \* history: total_steps of every spawned task, by TaskId + 1
    calls,          \* history: the step_fn invocations, in order
    turns,          \* history: iterations of the pop-front loop of run()
    ticked,         \* history: timer_tick calls since the last refuel
    interrupts_enabled, \* RFLAGS.IF
    TICKS,          \* arch/interrupts.rs static tick counter
    locks,          \* holder of each spin::Mutex: "free", "main" or "isr"
    boot,           \* how far kernel_main has come in bringing the machine up
    isr,            \* position inside the interrupt handler running, or "none"
    print_pc,       \* position inside serial::_print, of the main flow and of the ISR
    saved,          \* saved_intpt_flag of without_interrupts, of each of the two
    in_service,     \* the IRQ the PIC holds in service until the EOI
    memory_regions, \* BootInfoFrameAllocator: the bootloader's memory map
    next,           \* BootInfoFrameAllocator: the frames handed out so far
    allocated,      \* history: what allocate_frame returned, in order
    panicked,       \* the flow that panicked: "none", "main" or "isr"
    panic,          \* position inside the panic handler, or "none"
    tick_remaining, \* timer_tick's local `remaining`: the value it loaded from the counter
    last            \* the last operation called, its arguments and its result

vars == << caps, NEXT_CAP_ID, parent_of, revoke_ok, objects, tag_index,
           tasks, NEXT_ID, FUEL_REMAINING, pc, task, spawned, calls, turns,
           ticked, interrupts_enabled, TICKS, locks, boot, isr, print_pc,
           saved, in_service, panicked, panic, tick_remaining,
           memory_regions, next, allocated, last >>

capVars   == << caps, NEXT_CAP_ID, parent_of, revoke_ok >>
storeVars == << objects, tag_index >>
schedRest == << tasks, NEXT_ID, pc, task, spawned, calls, turns >>
schedVars == << schedRest, FUEL_REMAINING, ticked >>
frameVars == << memory_regions, next, allocated >>
panicVars == << panicked, panic >>
cpuVars   == << interrupts_enabled, TICKS, locks, boot, isr, print_pc, saved,
               in_service, tick_remaining, panicVars >>
irqVars   == << cpuVars, frameVars >>

----------------------------------------------------------------------------
(* Bounds of the model *)

\* mint/restrict are enabled while NEXT_CAP_ID <= MaxCaps
MaxCaps == 3

----------------------------------------------------------------------------
(* Rights: bitflags over u32, caps/mod.rs:38-51 *)

READ    == 1
WRITE   == 2
EXECUTE == 4
DELETE  == 8
RW      == 3
ALL     == 15

\* every value of the Rights bitflags type built from its named flags
AllRights == 0..15

RECURSIVE BitAnd(_, _)
BitAnd(a, b) ==
    IF a = 0 \/ b = 0 THEN 0
    ELSE (a % 2) * (b % 2) + 2 * BitAnd(a \div 2, b \div 2)

\* bitflags' Rights::contains(self, other): (self & other) == other
contains(self, other) == BitAnd(self, other) = other

----------------------------------------------------------------------------
(* Results *)

Ok(v)  == [ok |-> TRUE, val |-> v]
Err(e) == [ok |-> FALSE, err |-> e]
Unit   == "()"

\* Option<BTreeMap<..>>: None, or Some(map)
None      == [some |-> FALSE, map |-> << >>]
Some(m)   == [some |-> TRUE, map |-> m]
\* Option::get_or_insert_with(BTreeMap::new)
GetOrInsert(opt) == IF opt.some THEN opt ELSE Some(<< >>)
\* BTreeMap::insert(k, v): adds the entry, replacing an entry of the same key
MapInsert(m, k, v) == [x \in (DOMAIN m) \cup {k} |-> IF x = k THEN v ELSE m[x]]
\* BTreeMap::remove(k)
MapRemove(m, k) == [x \in (DOMAIN m) \ {k} |-> m[x]]

----------------------------------------------------------------------------
(* Capability manager *)

\* Resource values (caps/mod.rs:72-81) used as inputs of mint
Object0   == [kind |-> "Object", id |-> 0]
Memory4K  == [kind |-> "Memory", base |-> 4096, size |-> 4096]
Device3F8 == [kind |-> "Device", id |-> 1016]

\* READ | WRITE | DELETE, the rights of rwd_cap (main.rs:73-77)
RWD == 11

\* <<resource, rights, delegatable>> given to mint by the capability manager's
\* callers: a delegatable RW capability and a non-delegatable READ capability
MintArgs == { << Memory4K, RW, TRUE >>, << Device3F8, READ, FALSE >> }

\* rights sets presented to verify: the empty set, a flag the capability may
\* hold, a flag no minted capability holds, and a two-flag set
VerifyRights == {0, READ, EXECUTE, RW}

\* rights sets presented to restrict
RestrictRights == {0, READ, WRITE}

\* CapId values presented to the manager: minted ones and never-minted ones
CapIds == 1..(MaxCaps + 1)

Capability(id, resource, rights, delegatable, revoked) ==
    [id |-> id, resource |-> resource, rights |-> rights,
     delegatable |-> delegatable, revoked |-> revoked]

\* verify with Rights::intersects in place of Rights::contains
verify_intersects(capsv, cap_id, required) ==
    IF ~capsv.some THEN Err("NotFound")
    ELSE IF cap_id \notin DOMAIN capsv.map THEN Err("NotFound")
    ELSE IF capsv.map[cap_id].revoked THEN Err("Revoked")
    ELSE IF BitAnd(capsv.map[cap_id].rights, required) = 0 THEN Err("PermissionDenied")
    ELSE Ok(Unit)

\* manager.rs:41-53
verify(capsv, cap_id, required) ==
    IF ~capsv.some THEN Err("NotFound")
    ELSE IF cap_id \notin DOMAIN capsv.map THEN Err("NotFound")
    ELSE IF capsv.map[cap_id].revoked THEN Err("Revoked")
    ELSE IF ~contains(capsv.map[cap_id].rights, required) THEN Err("PermissionDenied")
    ELSE Ok(Unit)

\* restrict without the check that new_rights is contained in the parent's rights
restrict_check_no_escalation(capsv, parent_id, new_rights) ==
    IF ~capsv.some THEN Err("NotFound")
    ELSE IF parent_id \notin DOMAIN capsv.map THEN Err("NotFound")
    ELSE IF capsv.map[parent_id].revoked THEN Err("Revoked")
    ELSE IF ~capsv.map[parent_id].delegatable THEN Err("NotDelegatable")
    ELSE Ok(Unit)

\* restrict with the delegatable check before the revoked check
restrict_check_delegatable_first(capsv, parent_id, new_rights) ==
    IF ~capsv.some THEN Err("NotFound")
    ELSE IF parent_id \notin DOMAIN capsv.map THEN Err("NotFound")
    ELSE IF ~capsv.map[parent_id].delegatable THEN Err("NotDelegatable")
    ELSE IF capsv.map[parent_id].revoked THEN Err("Revoked")
    ELSE IF ~contains(capsv.map[parent_id].rights, new_rights) THEN Err("CannotEscalate")
    ELSE Ok(Unit)

\* restrict without the delegatable check
restrict_check_any_parent(capsv, parent_id, new_rights) ==
    IF ~capsv.some THEN Err("NotFound")
    ELSE IF parent_id \notin DOMAIN capsv.map THEN Err("NotFound")
    ELSE IF capsv.map[parent_id].revoked THEN Err("Revoked")
    ELSE IF ~contains(capsv.map[parent_id].rights, new_rights) THEN Err("CannotEscalate")
    ELSE Ok(Unit)

\* restrict with the delegatable check after the rights check
restrict_check_rights_first(capsv, parent_id, new_rights) ==
    IF ~capsv.some THEN Err("NotFound")
    ELSE IF parent_id \notin DOMAIN capsv.map THEN Err("NotFound")
    ELSE IF capsv.map[parent_id].revoked THEN Err("Revoked")
    ELSE IF ~contains(capsv.map[parent_id].rights, new_rights) THEN Err("CannotEscalate")
    ELSE IF ~capsv.map[parent_id].delegatable THEN Err("NotDelegatable")
    ELSE Ok(Unit)

\* manager.rs:56-70, the checks of restrict; Ok when all of them pass
restrict_check(capsv, parent_id, new_rights) ==
    IF ~capsv.some THEN Err("NotFound")
    ELSE IF parent_id \notin DOMAIN capsv.map THEN Err("NotFound")
    ELSE IF capsv.map[parent_id].revoked THEN Err("Revoked")
    ELSE IF ~capsv.map[parent_id].delegatable THEN Err("NotDelegatable")
    ELSE IF ~contains(capsv.map[parent_id].rights, new_rights) THEN Err("CannotEscalate")
    ELSE Ok(Unit)

\* the child built non-delegatable instead of copying the parent's flag
restrict_child_not_delegatable(par, child_id, new_rights) ==
    Capability(child_id, par.resource, new_rights, FALSE, FALSE)

\* manager.rs:72-79, the child capability restrict builds
restrict_child(par, child_id, new_rights) ==
    Capability(child_id, par.resource, new_rights, par.delegatable, FALSE)

\* revoke marking every capability on the same resource as well
revoke_map_same_resource(m, cap_id) ==
    [c \in DOMAIN m |->
        IF m[c].resource = m[cap_id].resource THEN [m[c] EXCEPT !.revoked = TRUE]
        ELSE m[c]]

\* revoke removing the entry instead of marking it
revoke_map_remove(m, cap_id) == MapRemove(m, cap_id)

\* manager.rs:87-93, the registry after revoke found the capability
revoke_map(m, cap_id) == [m EXCEPT ![cap_id].revoked = TRUE]

\* manager.rs:96-101
describe(capsv, cap_id) ==
    IF ~capsv.some THEN Err("NotFound")
    ELSE IF cap_id \notin DOMAIN capsv.map THEN Err("NotFound")
    ELSE Ok(<< capsv.map[cap_id].resource, capsv.map[cap_id].rights >>)

\* mint reading the counter without advancing it (load in place of fetch_add)
Mint_reuse(resource, rights, delegatable) ==
    /\ NEXT_CAP_ID <= MaxCaps
    /\ LET id == NEXT_CAP_ID IN
        /\ NEXT_CAP_ID' = NEXT_CAP_ID
        /\ caps' = Some(MapInsert(GetOrInsert(caps).map, id,
                                  Capability(id, resource, rights, delegatable, FALSE)))
        /\ last' = [op |-> "mint", resource |-> resource, rights |-> rights,
                    delegatable |-> delegatable, res |-> Ok(id)]
    /\ UNCHANGED << parent_of, revoke_ok, storeVars, schedVars, irqVars >>

\* manager.rs:27-38
Mint(resource, rights, delegatable) ==
    /\ NEXT_CAP_ID <= MaxCaps
    /\ LET id == NEXT_CAP_ID IN
        /\ NEXT_CAP_ID' = NEXT_CAP_ID + 1
        /\ caps' = Some(MapInsert(GetOrInsert(caps).map, id,
                                  Capability(id, resource, rights, delegatable, FALSE)))
        /\ last' = [op |-> "mint", resource |-> resource, rights |-> rights,
                    delegatable |-> delegatable, res |-> Ok(id)]
    /\ UNCHANGED << parent_of, revoke_ok, storeVars, schedVars, irqVars >>

\* manager.rs:41-53
Verify(cap_id, required) ==
    /\ last' = [op |-> "verify", cap |-> cap_id, rights |-> required,
                res |-> verify(caps, cap_id, required)]
    /\ UNCHANGED << capVars, storeVars, schedVars, irqVars >>

\* manager.rs:56-84
Restrict(parent_id, new_rights) ==
    LET chk == restrict_check(caps, parent_id, new_rights) IN
    IF ~chk.ok
    THEN /\ last' = [op |-> "restrict", cap |-> parent_id, rights |-> new_rights,
                     res |-> chk]
         /\ UNCHANGED << capVars, storeVars, schedVars, irqVars >>
    ELSE /\ NEXT_CAP_ID <= MaxCaps
         /\ LET child_id == NEXT_CAP_ID IN
             /\ NEXT_CAP_ID' = NEXT_CAP_ID + 1
             /\ caps' = Some(MapInsert(caps.map, child_id,
                             restrict_child(caps.map[parent_id], child_id, new_rights)))
             /\ parent_of' = MapInsert(parent_of, child_id, parent_id)
             /\ last' = [op |-> "restrict", cap |-> parent_id, rights |-> new_rights,
                         res |-> Ok(child_id)]
         /\ UNCHANGED << revoke_ok, storeVars, schedVars, irqVars >>

\* manager.rs:87-93
Revoke(cap_id) ==
    IF ~caps.some \/ cap_id \notin DOMAIN caps.map
    THEN /\ last' = [op |-> "revoke", cap |-> cap_id, res |-> Err("NotFound")]
         /\ UNCHANGED << capVars, storeVars, schedVars, irqVars >>
    ELSE /\ caps' = Some(revoke_map(caps.map, cap_id))
         /\ revoke_ok' = revoke_ok \cup {cap_id}
         /\ last' = [op |-> "revoke", cap |-> cap_id, res |-> Ok(Unit)]
         /\ UNCHANGED << NEXT_CAP_ID, parent_of, storeVars, schedVars, irqVars >>

\* manager.rs:96-101
Describe(cap_id) ==
    /\ last' = [op |-> "describe", cap |-> cap_id, res |-> describe(caps, cap_id)]
    /\ UNCHANGED << capVars, storeVars, schedVars, irqVars >>

----------------------------------------------------------------------------
(* Object identifiers: 64-bit FNV-1a, objstore/mod.rs:37-44.                *)
(* A u64 is kept as its 8 bytes, least significant first, so that the       *)
(* wrapping multiplication is computed at its width.                        *)

\* 0xcbf29ce484222325
FNV_OFFSET_BASIS == << 37, 35, 34, 132, 228, 156, 242, 203 >>
\* 0x100000001b3
FNV_PRIME == << 179, 1, 0, 0, 0, 1, 0, 0 >>

RECURSIVE BitXor(_, _)
BitXor(a, b) ==
    IF a = 0 THEN b
    ELSE IF b = 0 THEN a
    ELSE ((a + b) % 2) + 2 * BitXor(a \div 2, b \div 2)

\* hash ^= byte as u64: the byte is xor-ed into the lowest 8 bits
xor_byte(hash, byte) == [hash EXCEPT ![1] = BitXor(hash[1], byte)]

\* column k of the schoolbook product: sum of a[i] * b[k + 1 - i], i in 1..k
RECURSIVE MulColumn(_, _, _, _)
MulColumn(a, b, k, i) ==
    IF i > k THEN 0 ELSE a[i] * b[k + 1 - i] + MulColumn(a, b, k, i + 1)

RECURSIVE MulFrom(_, _, _, _)
MulFrom(a, b, k, carry) ==
    IF k > 8 THEN << >>
    ELSE LET t == MulColumn(a, b, k, 1) + carry
         IN  << t % 256 >> \o MulFrom(a, b, k + 1, t \div 256)

\* u64::wrapping_mul: the product modulo 2^64
wrapping_mul(a, b) == MulFrom(a, b, 1, 0)

RECURSIVE hash_from(_, _)
hash_from(hash, data) ==
    IF data = << >> THEN hash
    ELSE hash_from(wrapping_mul(xor_byte(hash, Head(data)), FNV_PRIME), Tail(data))

\* objstore/mod.rs:37-44
hash_content(data) == hash_from(FNV_OFFSET_BASIS, data)

\* objstore/mod.rs:25-27
from_content(data) == hash_content(data)

----------------------------------------------------------------------------
(* Objects, objstore/mod.rs:46-78 *)

\* objstore/mod.rs:57-65
Object_new(content) ==
    [id |-> hash_content(content), content |-> content,
     tags |-> << >>, metadata |-> << >>]

\* objstore/mod.rs:68-71
with_tag(obj, tag) == [obj EXCEPT !.tags = Append(@, tag)]

\* objstore/mod.rs:74-77
with_meta(obj, key, val) == [obj EXCEPT !.metadata = MapInsert(@, key, val)]

\* objstore/mod.rs:50, `pub content`: a caller may assign the field
set_content(obj, content) == [obj EXCEPT !.content = content]

RECURSIVE with_tags(_, _)
with_tags(obj, tags) ==
    IF tags = << >> THEN obj ELSE with_tags(with_tag(obj, Head(tags)), Tail(tags))

----------------------------------------------------------------------------
(* Object store, objstore/store.rs.  Each operation is an operator from the *)
(* store (objects, tag_index) to the store it leaves and its result.        *)

StoreOut(objs, idx, res) == [objects |-> objs, tag_index |-> idx, res |-> res]

\* create pushing the id under a tag only when it is not there yet
RECURSIVE index_tags_once(_, _, _)
index_tags_once(idx, tags, id) ==
    IF tags = << >> THEN idx
    ELSE LET m   == GetOrInsert(idx).map
             tag == Head(tags)
             ids == IF tag \in DOMAIN m THEN m[tag] ELSE << >>
             new == IF \E n \in DOMAIN ids : ids[n] = id THEN ids ELSE Append(ids, id)
         IN  index_tags_once(Some(MapInsert(m, tag, new)), Tail(tags), id)

\* store.rs:41-46: for tag in &obj.tags { tag_index().entry(tag).or_insert_with(Vec::new).push(id) }
RECURSIVE index_tags(_, _, _)
index_tags(idx, tags, id) ==
    IF tags = << >> THEN idx
    ELSE LET m   == GetOrInsert(idx).map
             tag == Head(tags)
             ids == IF tag \in DOMAIN m THEN m[tag] ELSE << >>
         IN  index_tags(Some(MapInsert(m, tag, Append(ids, id))), Tail(tags), id)

\* Vec::retain(|i| *i != id)
retain_not(ids, id) == SelectSeq(ids, LAMBDA i : i # id)

\* delete leaving the tag index as it is
prune_nothing(idx, tags, id) == idx

\* store.rs:78-82: for tag in &obj.tags { if let Some(ids) = tag_index().get_mut(tag) { ids.retain(..) } }
RECURSIVE prune_tags(_, _, _)
prune_tags(idx, tags, id) ==
    IF tags = << >> THEN idx
    ELSE LET m   == GetOrInsert(idx).map
             tag == Head(tags)
         IN  prune_tags(IF tag \in DOMAIN m
                        THEN Some([m EXCEPT ![tag] = retain_not(@, id)])
                        ELSE Some(m),
                        Tail(tags), id)

\* create updating the tag index before it looks for the id
store_create_index_first(objs, idx, obj) ==
    LET o1 == GetOrInsert(objs)
        i1 == index_tags(idx, obj.tags, obj.id)
    IN  IF obj.id \in DOMAIN o1.map
        THEN StoreOut(o1, i1, Err("AlreadyExists"))
        ELSE StoreOut(Some(MapInsert(o1.map, obj.id, obj)), i1, Ok(obj.id))

\* store.rs:32-50
store_create(objs, idx, obj) ==
    LET o1 == GetOrInsert(objs) IN
    IF obj.id \in DOMAIN o1.map
    THEN StoreOut(o1, idx, Err("AlreadyExists"))
    ELSE StoreOut(Some(MapInsert(o1.map, obj.id, obj)),
                  index_tags(idx, obj.tags, obj.id),
                  Ok(obj.id))

\* store.rs:53-59
store_read(objs, idx, id) ==
    IF objs.some /\ id \in DOMAIN objs.map
    THEN StoreOut(objs, idx, Ok(objs.map[id]))
    ELSE StoreOut(objs, idx, Err("NotFound"))

\* store.rs:62-68
store_query_by_tag(objs, idx, tag) ==
    IF idx.some /\ tag \in DOMAIN idx.map
    THEN StoreOut(objs, idx, idx.map[tag])
    ELSE StoreOut(objs, idx, << >>)

\* delete looking the object up (get) where the code removes it
store_delete_get(objs, idx, id) ==
    LET o1 == GetOrInsert(objs) IN
    IF id \notin DOMAIN o1.map
    THEN StoreOut(o1, idx, Err("NotFound"))
    ELSE StoreOut(o1, prune_tags(idx, o1.map[id].tags, id), Ok(Unit))

\* store.rs:71-84
store_delete(objs, idx, id) ==
    LET o1 == GetOrInsert(objs) IN
    IF id \notin DOMAIN o1.map
    THEN StoreOut(o1, idx, Err("NotFound"))
    ELSE StoreOut(Some(MapRemove(o1.map, id)),
                  prune_tags(idx, o1.map[id].tags, id),
                  Ok(Unit))

\* store.rs:87-90
store_count(objs) == IF objs.some THEN Cardinality(DOMAIN objs.map) ELSE 0

\* the store variables take the store an operation leaves
StoreBecomes(out) ==
    /\ objects' = out.objects
    /\ tag_index' = out.tag_index

\* store.rs:32-50
Create(obj) ==
    LET out == store_create(objects, tag_index, obj) IN
    /\ StoreBecomes(out)
    /\ last' = [op |-> "create", obj |-> obj, res |-> out.res]
    /\ UNCHANGED << capVars, schedVars, irqVars >>

\* store.rs:53-59
Read(id) ==
    LET out == store_read(objects, tag_index, id) IN
    /\ StoreBecomes(out)
    /\ last' = [op |-> "read", id |-> id, res |-> out.res]
    /\ UNCHANGED << capVars, schedVars, irqVars >>

\* store.rs:62-68
QueryByTag(tag) ==
    LET out == store_query_by_tag(objects, tag_index, tag) IN
    /\ StoreBecomes(out)
    /\ last' = [op |-> "query_by_tag", tag |-> tag, res |-> out.res]
    /\ UNCHANGED << capVars, schedVars, irqVars >>

\* store.rs:71-84
Delete(id) ==
    LET out == store_delete(objects, tag_index, id) IN
    /\ StoreBecomes(out)
    /\ last' = [op |-> "delete", id |-> id, res |-> out.res]
    /\ UNCHANGED << capVars, schedVars, irqVars >>

\* store.rs:87-90
Count ==
    /\ last' = [op |-> "count", res |-> store_count(objects)]
    /\ UNCHANGED << capVars, storeVars, schedVars, irqVars >>

----------------------------------------------------------------------------
(* Capability-gated facade, objstore/gated.rs *)

\* gated.rs:11-15, 26-31: GatedError::Cap(e) and GatedError::Store(e)
GatedCap(e)   == Err(<< "Cap", e >>)
GatedStore(e) == Err(<< "Store", e >>)

\* `verify(..)?` failed: the store is left alone and the CapError is converted
CapFailed(objs, idx, v) == StoreOut(objs, idx, GatedCap(v.err))

\* `Ok(store::op(..)?)`: the store operation's outcome, its error converted
FromStore(out) ==
    IF out.res.ok THEN out
    ELSE StoreOut(out.objects, out.tag_index, GatedStore(out.res.err))

\* create looking the object up in the store before it checks the capability
gated_create_store_first(capsv, objs, idx, cap_id, obj) ==
    LET v == verify(capsv, cap_id, WRITE) IN
    IF objs.some /\ obj.id \in DOMAIN objs.map
    THEN StoreOut(objs, idx, GatedStore("AlreadyExists"))
    ELSE IF ~v.ok THEN CapFailed(objs, idx, v)
    ELSE FromStore(store_create(objs, idx, obj))

\* gated.rs:34-37
gated_create(capsv, objs, idx, cap_id, obj) ==
    LET v == verify(capsv, cap_id, WRITE) IN
    IF ~v.ok THEN CapFailed(objs, idx, v)
    ELSE FromStore(store_create(objs, idx, obj))

\* read refusing a capability whose resource is not an Object
gated_read_object_only(capsv, objs, idx, cap_id, obj_id) ==
    LET v == verify(capsv, cap_id, READ) IN
    IF ~v.ok THEN CapFailed(objs, idx, v)
    ELSE IF capsv.map[cap_id].resource.kind # "Object"
         THEN CapFailed(objs, idx, Err("PermissionDenied"))
    ELSE FromStore(store_read(objs, idx, obj_id))

\* read without the capability check
gated_read_unchecked(capsv, objs, idx, cap_id, obj_id) ==
    FromStore(store_read(objs, idx, obj_id))

\* gated.rs:40-43
gated_read(capsv, objs, idx, cap_id, obj_id) ==
    LET v == verify(capsv, cap_id, READ) IN
    IF ~v.ok THEN CapFailed(objs, idx, v)
    ELSE FromStore(store_read(objs, idx, obj_id))

\* gated.rs:46-49
gated_query_by_tag(capsv, objs, idx, cap_id, tag) ==
    LET v == verify(capsv, cap_id, READ) IN
    IF ~v.ok THEN CapFailed(objs, idx, v)
    ELSE LET out == store_query_by_tag(objs, idx, tag)
         IN  StoreOut(out.objects, out.tag_index, Ok(out.res))

\* delete asking for WRITE where DELETE is required
gated_delete_with_write(capsv, objs, idx, cap_id, obj_id) ==
    LET v == verify(capsv, cap_id, WRITE) IN
    IF ~v.ok THEN CapFailed(objs, idx, v)
    ELSE FromStore(store_delete(objs, idx, obj_id))

\* gated.rs:52-55
gated_delete(capsv, objs, idx, cap_id, obj_id) ==
    LET v == verify(capsv, cap_id, DELETE) IN
    IF ~v.ok THEN CapFailed(objs, idx, v)
    ELSE FromStore(store_delete(objs, idx, obj_id))

\* gated.rs:34-37
GatedCreate(cap_id, obj) ==
    LET out == gated_create(caps, objects, tag_index, cap_id, obj) IN
    /\ StoreBecomes(out)
    /\ last' = [op |-> "gated_create", cap |-> cap_id, obj |-> obj, res |-> out.res]
    /\ UNCHANGED << capVars, schedVars, irqVars >>

\* gated.rs:40-43
GatedRead(cap_id, obj_id) ==
    LET out == gated_read(caps, objects, tag_index, cap_id, obj_id) IN
    /\ StoreBecomes(out)
    /\ last' = [op |-> "gated_read", cap |-> cap_id, id |-> obj_id, res |-> out.res]
    /\ UNCHANGED << capVars, schedVars, irqVars >>

\* gated.rs:46-49
GatedQueryByTag(cap_id, tag) ==
    LET out == gated_query_by_tag(caps, objects, tag_index, cap_id, tag) IN
    /\ StoreBecomes(out)
    /\ last' = [op |-> "gated_query_by_tag", cap |-> cap_id, tag |-> tag, res |-> out.res]
    /\ UNCHANGED << capVars, schedVars, irqVars >>

\* gated.rs:52-55
GatedDelete(cap_id, obj_id) ==
    LET out == gated_delete(caps, objects, tag_index, cap_id, obj_id) IN
    /\ StoreBecomes(out)
    /\ last' = [op |-> "gated_delete", cap |-> cap_id, id |-> obj_id, res |-> out.res]
    /\ UNCHANGED << capVars, schedVars, irqVars >>

----------------------------------------------------------------------------
(* Tasks and the cooperative scheduler, task/mod.rs and task/scheduler.rs *)

\* scheduler.rs:15
DEFAULT_FUEL == 18

\* the &'static str names given to spawn, by spawn order
TaskNames == << "A", "B", "C", "D", "E", "F" >>

\* task/mod.rs:56-66; step_fn is a fn pointer, named here by the task it belongs to
Task_new(id, name, total_steps, step_fn, capsv) ==
    [id |-> id, name |-> name, state |-> "Ready", current_step |-> 0,
     total_steps |-> total_steps, step_fn |-> step_fn, caps |-> capsv]

\* VecDeque::push_front in place of push_back
push_front(q, t) == << t >> \o q

\* VecDeque::push_back, scheduler.rs:55 and scheduler.rs:80
push_back(q, t) == Append(q, t)

\* scheduler.rs:34-36
refuel == DEFAULT_FUEL

\* scheduler.rs:52-56; spawn hands Task::new no capability list (scheduler.rs:53)
Spawn(name, steps) ==
    /\ pc = "idle"
    /\ tasks' = push_back(tasks, Task_new(NEXT_ID, name, steps, name, << >>))
    /\ NEXT_ID' = NEXT_ID + 1
    /\ spawned' = Append(spawned, steps)
    /\ last' = [op |-> "spawn", name |-> name, steps |-> steps]
    /\ UNCHANGED << capVars, storeVars, irqVars, FUEL_REMAINING, ticked, pc, task,
                    calls, turns >>

\* scheduler.rs:60-62: run() is entered
RunStart ==
    /\ pc = "idle"
    /\ pc' = "loop"
    /\ last' = [op |-> "run"]
    /\ UNCHANGED << capVars, storeVars, irqVars, tasks, NEXT_ID, FUEL_REMAINING,
                    ticked, task, spawned, calls, turns >>

\* the turn taking the task at the back of the queue (pop_back)
TurnPop_back ==
    /\ pc = "loop"
    /\ tasks # << >>
    /\ task' = [tasks[Len(tasks)] EXCEPT !.state = "Running"]
    /\ tasks' = SubSeq(tasks, 1, Len(tasks) - 1)
    /\ FUEL_REMAINING' = refuel
    /\ ticked' = 0
    /\ turns' = turns + 1
    /\ pc' = "step"
    /\ UNCHANGED << capVars, storeVars, irqVars, NEXT_ID, spawned, calls, last >>

\* scheduler.rs:64-67: pop the front task, mark it Running, refuel
TurnPop ==
    /\ pc = "loop"
    /\ tasks # << >>
    /\ task' = [Head(tasks) EXCEPT !.state = "Running"]
    /\ tasks' = Tail(tasks)
    /\ FUEL_REMAINING' = refuel
    /\ ticked' = 0
    /\ turns' = turns + 1
    /\ pc' = "step"
    /\ UNCHANGED << capVars, storeVars, irqVars, NEXT_ID, spawned, calls, last >>

\* the step of scheduler.rs:70-73 run without its current_step < total_steps test
TurnStep_unguarded ==
    /\ pc = "step"
    /\ calls' = Append(calls, [task |-> task.id, step_fn |-> task.step_fn,
                               args |-> << task.current_step >>])
    /\ task' = [task EXCEPT !.current_step = @ + 1]
    /\ pc' = "requeue"
    /\ UNCHANGED << capVars, storeVars, irqVars, tasks, NEXT_ID, FUEL_REMAINING,
                    ticked, spawned, turns, last >>

\* scheduler.rs:69-73: run exactly one step; step_fn is called with the step index
TurnStep ==
    /\ pc = "step"
    /\ IF task.current_step < task.total_steps
       THEN /\ calls' = Append(calls, [task |-> task.id, step_fn |-> task.step_fn,
                                       args |-> << task.current_step >>])
            /\ task' = [task EXCEPT !.current_step = @ + 1]
       ELSE UNCHANGED << calls, task >>
    /\ pc' = "requeue"
    /\ UNCHANGED << capVars, storeVars, irqVars, tasks, NEXT_ID, FUEL_REMAINING,
                    ticked, spawned, turns, last >>

\* the completion test of scheduler.rs:75 with > in place of >=
TurnRequeue_strict ==
    /\ pc = "requeue"
    /\ IF task.current_step > task.total_steps
       THEN /\ tasks' = tasks
            /\ last' = [op |-> "completed", task |-> [task EXCEPT !.state = "Done"]]
       ELSE /\ tasks' = push_back(tasks, [task EXCEPT !.state = "Ready"])
            /\ last' = last
    /\ task' = << >>
    /\ pc' = "loop"
    /\ UNCHANGED << capVars, storeVars, irqVars, NEXT_ID, FUEL_REMAINING, ticked,
                    spawned, calls, turns >>

\* scheduler.rs:75-81: a finished task is dropped, another goes to the back
TurnRequeue ==
    /\ pc = "requeue"
    /\ IF task.current_step >= task.total_steps
       THEN /\ tasks' = tasks
            /\ last' = [op |-> "completed", task |-> [task EXCEPT !.state = "Done"]]
       ELSE /\ tasks' = push_back(tasks, [task EXCEPT !.state = "Ready"])
            /\ last' = last
    /\ task' = << >>
    /\ pc' = "loop"
    /\ UNCHANGED << capVars, storeVars, irqVars, NEXT_ID, FUEL_REMAINING, ticked,
                    spawned, calls, turns >>

\* scheduler.rs:64, 84-86: the queue is empty, run() returns
RunEnd ==
    /\ pc = "loop"
    /\ tasks = << >>
    /\ pc' = "done"
    /\ last' = [op |-> "all_completed"]
    /\ UNCHANGED << capVars, storeVars, irqVars, tasks, NEXT_ID, FUEL_REMAINING,
                    ticked, task, spawned, calls, turns >>

----------------------------------------------------------------------------
(* Fuel counter, task/scheduler.rs:18-36.  The AtomicU64 is kept as the      *)
(* representative of its value modulo 2^64 that is nearest zero, so that -1  *)
(* stands for 2^64 - 1, what fetch_sub(1) leaves when it wraps below zero.   *)

\* AtomicU64::fetch_sub(1), wrapping
fetch_sub_1(x) == x - 1

\* remaining > 0 on a u64: every value but zero
is_positive(x) == x # 0

\* timer_tick decrementing without looking at the value it loaded
timer_tick_unguarded(loaded, counter) == fetch_sub_1(counter)

\* scheduler.rs:21-26: the counter after timer_tick, from the value it loaded
\* (line 22) and the value the counter has when the fetch_sub acts (line 24)
timer_tick(loaded, counter) ==
    IF is_positive(loaded) THEN fetch_sub_1(counter) ELSE counter

\* scheduler.rs:29-31
fuel_exhausted(remaining) == remaining = 0

----------------------------------------------------------------------------
(* Physical frame allocator: memory/frame_allocator.rs.  A region is a      *)
(* record of its start and end addresses and its kind; a frame is named by   *)
(* its start address.                                                        *)

\* frame_allocator.rs:38,40: the size of a Size4KiB frame
FRAME_SIZE == 4096

NoFrame      == [some |-> FALSE]
SomeFrame(f) == [some |-> TRUE, frame |-> f]

\* PhysFrame::containing_address (frame_allocator.rs:41): the address aligned
\* down to the frame size
containing_address(addr) == addr - (addr % FRAME_SIZE)

\* a filter that lets every region through
is_usable_any(r) == TRUE

\* frame_allocator.rs:34
is_usable(r) == r.kind = "Usable"

\* frame_allocator.rs:36-42: the frames one region gives, from the i-th on
RECURSIVE region_frames(_, _)
region_frames(r, i) ==
    LET frame_count == (r.end - r.start) \div FRAME_SIZE
    IN  IF i >= frame_count THEN << >>
        ELSE << containing_address(r.start + i * FRAME_SIZE) >>
             \o region_frames(r, i + 1)

\* frame_allocator.rs:31-44: the filter and the flat_map over the memory map
RECURSIVE usable_frames(_)
usable_frames(regions) ==
    IF regions = << >> THEN << >>
    ELSE (IF is_usable(Head(regions)) THEN region_frames(Head(regions), 0) ELSE << >>)
         \o usable_frames(Tail(regions))

\* Iterator::nth (frame_allocator.rs:49), counting from 0
nth(s, n) == IF n < Len(s) THEN SomeFrame(s[n + 1]) ELSE NoFrame

\* frame_allocator.rs:23-28
BootInfoFrameAllocator_new(regions) ==
    /\ last.op = "boot"
    /\ memory_regions' = regions
    /\ next' = 0
    /\ allocated' = << >>
    /\ last' = [op |-> "new"]
    /\ UNCHANGED << capVars, storeVars, schedVars, cpuVars >>

\* frame_allocator.rs:48-52
allocate_frame ==
    /\ last.op \in {"new", "allocate_frame"}
    /\ LET frame == nth(usable_frames(memory_regions), next)
       IN  /\ next' = next + 1
           /\ allocated' = Append(allocated, frame)
           /\ last' = [op |-> "allocate_frame", res |-> frame]
    /\ UNCHANGED << capVars, storeVars, schedVars, cpuVars, memory_regions >>

----------------------------------------------------------------------------
(* Interrupts and spin-mutexes: serial.rs, arch/mod.rs, arch/interrupts.rs.  *)
(* One CPU: a handler runs from its entry to its return with the main flow   *)
(* suspended, and, being entered through an interrupt gate, with IF clear.   *)

\* the main flow is the one executing: no handler runs and it has not panicked
MainRuns == isr = "none" /\ panicked = "none"

\* the panic handler is the one executing: it runs in the flow that panicked
HandlerRuns ==
    \/ panicked = "isr"
    \/ panicked = "main" /\ isr = "none"

\* the println! calls of the panic handler (main.rs:202-204)
PanicPrints == {"println1", "println2", "println3"}

\* the main flow is between two operations
MainIdle ==
    /\ MainRuns
    /\ print_pc["main"] = "none"
    /\ locks.MANAGER = "free"
    /\ boot \in {"reset", "serial", "pic", "enabled"}

\* the flow c ("main", "isr" or the panic handler) is the one executing
Executing(c) ==
    IF c = "main" THEN MainRuns
    ELSE IF c = "isr" THEN isr = "k_print" /\ panicked # "isr"
    ELSE HandlerRuns /\ panic \in PanicPrints

irqFrame == << capVars, storeVars, schedRest, frameVars, last, tick_remaining >>

\* serial.rs:16-19: kernel_main's first call takes SERIAL1 (main.rs:44)
SerialInitLock ==
    /\ MainIdle /\ boot = "reset"
    /\ locks.SERIAL1 = "free"
    /\ locks' = [locks EXCEPT !.SERIAL1 = "main"]
    /\ boot' = "serial_locked"
    /\ UNCHANGED << irqFrame, panicVars, FUEL_REMAINING, ticked, interrupts_enabled, TICKS, isr,
                    print_pc, saved, in_service >>

\* serial.rs:18: let _ = ... drops the guard at once
SerialInitDrop ==
    /\ MainRuns /\ boot = "serial_locked"
    /\ locks' = [locks EXCEPT !.SERIAL1 = "free"]
    /\ boot' = "serial"
    /\ UNCHANGED << irqFrame, panicVars, FUEL_REMAINING, ticked, interrupts_enabled, TICKS, isr,
                    print_pc, saved, in_service >>

\* interrupts.rs:46-50, arch/mod.rs:11: PICS.lock() for initialize()
InitPicLock ==
    /\ MainIdle /\ boot = "serial"
    /\ locks.PICS = "free"
    /\ locks' = [locks EXCEPT !.PICS = "main"]
    /\ boot' = "pic_locked"
    /\ UNCHANGED << irqFrame, panicVars, FUEL_REMAINING, ticked, interrupts_enabled, TICKS, isr,
                    print_pc, saved, in_service >>

\* interrupts.rs:48-49: initialize() done, the guard is dropped
InitPicDrop ==
    /\ MainRuns /\ boot = "pic_locked"
    /\ locks' = [locks EXCEPT !.PICS = "free"]
    /\ boot' = "pic"
    /\ UNCHANGED << irqFrame, panicVars, FUEL_REMAINING, ticked, interrupts_enabled, TICKS, isr,
                    print_pc, saved, in_service >>

\* interrupts.rs:53-55, arch/mod.rs:12
Enable ==
    /\ MainIdle /\ boot = "pic"
    /\ interrupts_enabled' = TRUE
    /\ boot' = "enabled"
    /\ UNCHANGED << irqFrame, panicVars, FUEL_REMAINING, ticked, TICKS, locks, isr, print_pc,
                    saved, in_service >>

\* _print entered without disabling interrupts
PrintBegin_interrupts_on(c) ==
    /\ Executing(c)
    /\ print_pc[c] = "none"
    /\ c = "main" => (MainIdle /\ boot # "reset")
    /\ saved' = [saved EXCEPT ![c] = interrupts_enabled]
    /\ print_pc' = [print_pc EXCEPT ![c] = "lock"]
    /\ UNCHANGED << irqFrame, panicVars, FUEL_REMAINING, ticked, interrupts_enabled, TICKS, locks,
                    boot, isr, in_service >>

\* serial.rs:22-26: _print enters without_interrupts, which saves IF and clears it
PrintBegin(c) ==
    /\ Executing(c)
    /\ print_pc[c] = "none"
    /\ c = "main" => (MainIdle /\ boot # "reset")
    /\ saved' = [saved EXCEPT ![c] = interrupts_enabled]
    /\ interrupts_enabled' = FALSE
    /\ print_pc' = [print_pc EXCEPT ![c] = "lock"]
    /\ UNCHANGED << irqFrame, panicVars, FUEL_REMAINING, ticked, TICKS, locks, boot, isr,
                    in_service >>

\* serial.rs:27: SERIAL1.lock() spins until the mutex is free
PrintLock(c) ==
    /\ Executing(c)
    /\ print_pc[c] = "lock"
    /\ locks.SERIAL1 = "free"
    /\ locks' = [locks EXCEPT !.SERIAL1 = c]
    /\ print_pc' = [print_pc EXCEPT ![c] = "write"]
    /\ UNCHANGED << irqFrame, panicVars, FUEL_REMAINING, ticked, interrupts_enabled, TICKS, boot,
                    isr, saved, in_service >>

\* serial.rs:27: write_fmt, and the guard dropped at the end of the statement
PrintWrite(c) ==
    /\ Executing(c)
    /\ print_pc[c] = "write"
    /\ locks' = [locks EXCEPT !.SERIAL1 = "free"]
    /\ print_pc' = [print_pc EXCEPT ![c] = "restore"]
    /\ UNCHANGED << irqFrame, panicVars, FUEL_REMAINING, ticked, interrupts_enabled, TICKS, boot,
                    isr, saved, in_service >>

\* main.rs:202-205: where the panic handler is after one of its println! calls
after_println(at) ==
    CASE at = "println1" -> "println2"
      [] at = "println2" -> "println3"
      [] OTHER           -> "hlt"

\* serial.rs:26-28: without_interrupts returns, enabling interrupts if it found them enabled
PrintEnd(c) ==
    /\ Executing(c)
    /\ print_pc[c] = "restore"
    /\ interrupts_enabled' = IF saved[c] THEN TRUE ELSE interrupts_enabled
    /\ print_pc' = [print_pc EXCEPT ![c] = "none"]
    /\ isr' = IF c = "isr" THEN "k_eoi" ELSE isr
    /\ panic' = IF c = "panic" THEN after_println(panic) ELSE panic
    /\ UNCHANGED << irqFrame, panicked, FUEL_REMAINING, ticked, TICKS, locks, boot,
                    saved, in_service >>

\* a panic is raised by the flow c: between two operations of the main flow
\* (memory/mod.rs:23, 47), or inside the write of _print, by its expect or by
\* the formatting it calls, with the SERIAL1 guard alive (serial.rs:27).
\* Nothing unwinds: the flow stays where it is and the handler is entered.
Panic(c) ==
    /\ panicked = "none"
    /\ \/ c = "main" /\ MainIdle /\ boot = "enabled"
       \/ Executing(c) /\ print_pc[c] = "write"
    /\ panicked' = c
    /\ panic' = "disable"
    /\ UNCHANGED << irqFrame, FUEL_REMAINING, ticked, interrupts_enabled, TICKS, locks,
                    boot, isr, print_pc, saved, in_service >>

\* main.rs:201: x86_64::instructions::interrupts::disable()
PanicDisable ==
    /\ HandlerRuns
    /\ panic = "disable"
    /\ interrupts_enabled' = FALSE
    /\ panic' = "println1"
    /\ UNCHANGED << irqFrame, panicked, FUEL_REMAINING, ticked, TICKS, locks, boot, isr,
                    print_pc, saved, in_service >>

\* manager.rs:36, 42, 57, 88, 97: a registry operation takes MANAGER
ManagerLock ==
    /\ MainIdle /\ boot = "enabled"
    /\ locks' = [locks EXCEPT !.MANAGER = "main"]
    /\ UNCHANGED << irqFrame, panicVars, FUEL_REMAINING, ticked, interrupts_enabled, TICKS, boot,
                    isr, print_pc, saved, in_service >>

\* manager.rs:36, 53, 84, 93, 101: the guard is dropped
ManagerDrop ==
    /\ MainRuns
    /\ locks.MANAGER = "main"
    /\ locks' = [locks EXCEPT !.MANAGER = "free"]
    /\ UNCHANGED << irqFrame, panicVars, FUEL_REMAINING, ticked, interrupts_enabled, TICKS, boot,
                    isr, print_pc, saved, in_service >>

\* refuel running while a timer_tick is between its load and its fetch_sub
Refuel_preempting ==
    /\ boot = "enabled"
    /\ FUEL_REMAINING' = refuel
    /\ ticked' = 0
    /\ UNCHANGED << irqFrame, irqVars >>

\* scheduler.rs:34-36, called by the main flow (scheduler.rs:67)
Refuel ==
    /\ MainIdle /\ boot = "enabled"
    /\ FUEL_REMAINING' = refuel
    /\ ticked' = 0
    /\ UNCHANGED << irqFrame, irqVars >>

\* interrupts.rs:61: IRQ0 is delivered and timer_handler entered
TimerFire ==
    /\ interrupts_enabled /\ isr = "none" /\ in_service = "none"
    /\ interrupts_enabled' = FALSE
    /\ in_service' = "timer"
    /\ isr' = "t_ticks"
    /\ UNCHANGED << irqFrame, panicVars, FUEL_REMAINING, ticked, TICKS, locks, boot, print_pc,
                    saved >>

\* interrupts.rs:62
TimerCount ==
    /\ isr = "t_ticks"
    /\ TICKS' = TICKS + 1
    /\ isr' = "t_fuel"
    /\ UNCHANGED << irqFrame, panicVars, FUEL_REMAINING, ticked, interrupts_enabled, locks, boot,
                    print_pc, saved, in_service >>

\* interrupts.rs:65, scheduler.rs:22: timer_tick loads the counter
TimerFuelLoad ==
    /\ isr = "t_fuel"
    /\ tick_remaining' = FUEL_REMAINING
    /\ isr' = "t_sub"
    /\ UNCHANGED << capVars, storeVars, schedRest, frameVars, panicVars, last,
                    FUEL_REMAINING, ticked, interrupts_enabled, TICKS, locks, boot, print_pc, saved,
                    in_service >>

\* scheduler.rs:23-25: the fetch_sub, if the loaded value was positive
TimerFuel ==
    /\ isr = "t_sub"
    /\ FUEL_REMAINING' = timer_tick(tick_remaining, FUEL_REMAINING)
    /\ ticked' = ticked + 1
    /\ isr' = "t_eoi"
    /\ UNCHANGED << irqFrame, panicVars, interrupts_enabled, TICKS, locks, boot, print_pc, saved,
                    in_service >>

\* the EOI sent through PICS.lock().notify_end_of_interrupt()
TimerEoi_through_PICS ==
    /\ isr = "t_eoi"
    /\ locks.PICS = "free"
    /\ locks' = [locks EXCEPT !.PICS = "isr"]
    /\ in_service' = "none"
    /\ isr' = "t_ret"
    /\ UNCHANGED << irqFrame, panicVars, FUEL_REMAINING, ticked, interrupts_enabled, TICKS,
                    boot, print_pc, saved >>

\* interrupts.rs:68-70: EOI written to port 0x20
TimerEoi ==
    /\ isr = "t_eoi"
    /\ in_service' = "none"
    /\ isr' = "t_ret"
    /\ UNCHANGED << irqFrame, panicVars, FUEL_REMAINING, ticked, interrupts_enabled, TICKS, locks,
                    boot, print_pc, saved >>

\* interrupts.rs:71: the handler returns, iretq restores the interrupted flags
TimerReturn ==
    /\ isr = "t_ret"
    /\ interrupts_enabled' = TRUE
    /\ isr' = "none"
    /\ UNCHANGED << irqFrame, panicVars, FUEL_REMAINING, ticked, TICKS, locks, boot, print_pc,
                    saved, in_service >>

\* interrupts.rs:74-78: IRQ1 is delivered, keyboard_handler entered, the scancode read
KeyFire ==
    /\ interrupts_enabled /\ isr = "none" /\ in_service = "none"
    /\ interrupts_enabled' = FALSE
    /\ in_service' = "keyboard"
    /\ isr' = "k_lock"
    /\ UNCHANGED << irqFrame, panicVars, FUEL_REMAINING, ticked, TICKS, locks, boot, print_pc,
                    saved >>

\* interrupts.rs:92: KEYBOARD.lock() spins until the mutex is free
KeyLock ==
    /\ isr = "k_lock"
    /\ locks.KEYBOARD = "free"
    /\ locks' = [locks EXCEPT !.KEYBOARD = "isr"]
    /\ isr' = "k_decode"
    /\ UNCHANGED << irqFrame, panicVars, FUEL_REMAINING, ticked, interrupts_enabled, TICKS, boot,
                    print_pc, saved, in_service >>

\* interrupts.rs:93-100: the decoder yields a key, which is printed, or none
KeyDecode(key) ==
    /\ isr = "k_decode"
    /\ isr' = IF key THEN "k_print" ELSE "k_eoi"
    /\ UNCHANGED << irqFrame, panicVars, FUEL_REMAINING, ticked, interrupts_enabled, TICKS, locks,
                    boot, print_pc, saved, in_service >>

\* interrupts.rs:103-105: EOI written to port 0x20
KeyEoi ==
    /\ isr = "k_eoi"
    /\ in_service' = "none"
    /\ isr' = "k_ret"
    /\ UNCHANGED << irqFrame, panicVars, FUEL_REMAINING, ticked, interrupts_enabled, TICKS, locks,
                    boot, print_pc, saved >>

\* interrupts.rs:106: the KEYBOARD guard is dropped, iretq restores the flags
KeyReturn ==
    /\ isr = "k_ret"
    /\ locks' = [locks EXCEPT !.KEYBOARD = "free"]
    /\ interrupts_enabled' = TRUE
    /\ isr' = "none"
    /\ UNCHANGED << irqFrame, panicVars, FUEL_REMAINING, ticked, TICKS, boot, print_pc, saved,
                    in_service >>

----------------------------------------------------------------------------
(* Initial state: the statics as the kernel image holds them *)

Init ==
    /\ caps = None
    /\ NEXT_CAP_ID = 1
    /\ parent_of = << >>
    /\ revoke_ok = {}
    /\ objects = None
    /\ tag_index = None
    /\ tasks = << >>
    /\ NEXT_ID = 0
    /\ FUEL_REMAINING = DEFAULT_FUEL
    /\ pc = "idle"
    /\ task = << >>
    /\ spawned = << >>
    /\ calls = << >>
    /\ turns = 0
    /\ ticked = 0
    /\ interrupts_enabled = FALSE
    /\ TICKS = 0
    /\ locks = [SERIAL1 |-> "free", KEYBOARD |-> "free", PICS |-> "free",
                MANAGER |-> "free"]
    /\ boot = "reset"
    /\ isr = "none"
    /\ print_pc = [main |-> "none", isr |-> "none", panic |-> "none"]
    /\ saved = [main |-> FALSE, isr |-> FALSE, panic |-> FALSE]
    /\ panicked = "none"
    /\ panic = "none"
    /\ in_service = "none"
    /\ tick_remaining = 0
    /\ memory_regions = << >>
    /\ next = 0
    /\ allocated = << >>
    /\ last = [op |-> "boot"]

CapNext ==
    \/ \E a \in MintArgs : Mint(a[1], a[2], a[3])
    \/ \E cap_id \in CapIds, required \in VerifyRights : Verify(cap_id, required)
    \/ \E parent_id \in CapIds, new_rights \in RestrictRights : Restrict(parent_id, new_rights)
    \/ \E cap_id \in CapIds : Revoke(cap_id)
    \/ \E cap_id \in CapIds : Describe(cap_id)

SpecCaps == Init /\ [][CapNext]_vars

----------------------------------------------------------------------------
(* The raw object store under every sequence of its operations *)

\* longest tag list given to an object by with_tag calls
MaxTags == 2

\* b"hello" (main.rs:87) and b"a"
HELLO    == << 104, 101, 108, 108, 111 >>
BYTES_A  == << 97 >>
Contents == {HELLO, BYTES_A}

TagNames == {"greeting", "config"}
TagSeqs  == UNION { [1..n -> TagNames] : n \in 0..MaxTags }

\* Object::new(c).with_tag(t1)...with_tag(tn)
TaggedObjects == { with_tags(Object_new(c), tags) : c \in Contents, tags \in TagSeqs }

\* ... .with_meta("lang", "en"), as main.rs:87-89 builds obj1
MetaObjects == { with_meta(with_tags(Object_new(HELLO), tags), "lang", "en") : tags \in TagSeqs }

\* an object whose public content field was assigned after Object::new
ReassignedObjects == { set_content(with_tags(Object_new(HELLO), tags), BYTES_A) : tags \in TagSeqs }

\* the objects handed to create
BuiltObjects == TaggedObjects \cup MetaObjects \cup ReassignedObjects

\* ObjId values a caller can hold: ObjId::from_content of some bytes
ObjIds == { from_content(c) : c \in Contents }

StoreNext ==
    \/ \E obj \in BuiltObjects : Create(obj)
    \/ \E id \in ObjIds : Read(id)
    \/ \E tag \in TagNames : QueryByTag(tag)
    \/ \E id \in ObjIds : Delete(id)
    \/ Count

SpecStore == Init /\ [][StoreNext]_vars

----------------------------------------------------------------------------
(* The gated store as kernel_main uses it: the capabilities of main.rs:67-77 *)
(* are minted in that order, any of them may be revoked, and the gated      *)
(* operations are called with every CapId, minted or not.                   *)

\* the arguments of the n-th mint: rw_cap (main.rs:67), r_cap (main.rs:70),
\* rwd_cap (main.rs:73-77); the first also over a Memory resource, as the
\* later ones are
BootMintArgs(n) ==
    CASE n = 1 -> { << Object0, RW, TRUE >>, << Memory4K, RW, TRUE >> }
      [] n = 2 -> { << Object0, READ, FALSE >> }
      [] n = 3 -> { << Object0, RWD, FALSE >> }
      [] OTHER -> { << Memory4K, RW, TRUE >> }

\* obj1 of main.rs:87-89, and an untagged object
OBJ_HELLO == with_meta(with_tag(Object_new(HELLO), "greeting"), "lang", "en")
OBJ_A     == Object_new(BYTES_A)
GatedObjects == {OBJ_HELLO, OBJ_A}

GatedNext ==
    \/ \E a \in BootMintArgs(NEXT_CAP_ID) : Mint(a[1], a[2], a[3])
    \/ \E parent_id \in CapIds : Restrict(parent_id, READ)
    \/ \E cap_id \in CapIds : Revoke(cap_id)
    \/ \E cap_id \in CapIds, obj \in GatedObjects : GatedCreate(cap_id, obj)
    \/ \E cap_id \in CapIds, id \in ObjIds : GatedRead(cap_id, id)
    \/ \E cap_id \in CapIds, tag \in TagNames : GatedQueryByTag(cap_id, tag)
    \/ \E cap_id \in CapIds, id \in ObjIds : GatedDelete(cap_id, id)
    \/ Count

SpecGated == Init /\ [][GatedNext]_vars

----------------------------------------------------------------------------
(* The scheduler: tasks are spawned, then run() is called once *)

\* most tasks spawned, and most steps of a task
MaxTasks == 3
MaxSteps == 3

SchedNext ==
    \/ \E steps \in 0..MaxSteps :
          NEXT_ID < MaxTasks /\ Spawn(TaskNames[NEXT_ID + 1], steps)
    \/ RunStart
    \/ TurnPop
    \/ TurnStep
    \/ TurnRequeue
    \/ RunEnd

SpecSched == Init /\ [][SchedNext]_vars

----------------------------------------------------------------------------
(* Interrupts: the main flow boots, prints, works on the registry and       *)
(* refuels, while the timer and the keyboard interrupt it                    *)

\* most timer interrupts taken; above DEFAULT_FUEL, so that the fuel runs out
MaxTicks == 20

IrqNext ==
    \/ SerialInitLock
    \/ SerialInitDrop
    \/ InitPicLock
    \/ InitPicDrop
    \/ Enable
    \/ \E c \in {"main", "isr"} : PrintBegin(c)
    \/ \E c \in {"main", "isr"} : PrintLock(c)
    \/ \E c \in {"main", "isr"} : PrintWrite(c)
    \/ \E c \in {"main", "isr"} : PrintEnd(c)
    \/ ManagerLock
    \/ ManagerDrop
    \/ Refuel
    \/ (TICKS < MaxTicks /\ TimerFire)
    \/ TimerCount
    \/ TimerFuelLoad
    \/ TimerFuel
    \/ TimerEoi
    \/ TimerReturn
    \/ KeyFire
    \/ KeyLock
    \/ \E key \in BOOLEAN : KeyDecode(key)
    \/ KeyEoi
    \/ KeyReturn

SpecIrq == Init /\ [][IrqNext]_vars

----------------------------------------------------------------------------
(* The same machine with panics: the flows of SpecIrq, the panics they can   *)
(* raise and the panic handler of main.rs                                    *)

PrintContexts == {"main", "isr", "panic"}

PanicNext ==
    \/ SerialInitLock
    \/ SerialInitDrop
    \/ InitPicLock
    \/ InitPicDrop
    \/ Enable
    \/ \E c \in PrintContexts : PrintBegin(c)
    \/ \E c \in PrintContexts : PrintLock(c)
    \/ \E c \in PrintContexts : PrintWrite(c)
    \/ \E c \in PrintContexts : PrintEnd(c)
    \/ ManagerLock
    \/ ManagerDrop
    \/ Refuel
    \/ (TICKS < MaxTicks /\ TimerFire)
    \/ TimerCount
    \/ TimerFuelLoad
    \/ TimerFuel
    \/ TimerEoi
    \/ TimerReturn
    \/ KeyFire
    \/ KeyLock
    \/ \E key \in BOOLEAN : KeyDecode(key)
    \/ KeyEoi
    \/ KeyReturn
    \/ \E c \in {"main", "isr"} : Panic(c)
    \/ PanicDisable

SpecPanic == Init /\ [][PanicNext]_vars

----------------------------------------------------------------------------
(* The frame allocator over the memory maps of up to MaxRegions regions with *)
(* page-aligned bounds within MaxPages pages                                 *)

MaxRegions == 2
MaxPages == 2
MaxCalls == 4

RegionKinds == {"Usable", "Reserved"}

Regions ==
    { [start |-> s * FRAME_SIZE, end |-> e * FRAME_SIZE, kind |-> k] :
        s \in 0..MaxPages, e \in 0..MaxPages, k \in RegionKinds }

\* a region the bootloader can report: it does not end before it starts
ValidRegions == { r \in Regions : r.start <= r.end }

MemoryMaps == UNION { [1..n -> ValidRegions] : n \in 0..MaxRegions }

FrameNext ==
    \/ \E regions \in MemoryMaps : BootInfoFrameAllocator_new(regions)
    \/ (next < MaxCalls /\ allocate_frame)

SpecFrames == Init /\ [][FrameNext]_vars

----------------------------------------------------------------------------
(* Vocabulary of the properties *)

\* the flags of a rights value, as a set of bit positions
Bits(r) == {i \in 0..3 : (r \div (2 ^ i)) % 2 = 1}
SubsetRights(a, b) == Bits(a) \subseteq Bits(b)

Present(capsv, c) == capsv.some /\ c \in DOMAIN capsv.map

\* the capabilities c was derived from by restrict, directly or transitively
RECURSIVE Ancestors(_, _)
Ancestors(po, c) ==
    IF c \in DOMAIN po THEN {po[c]} \cup Ancestors(po, po[c]) ELSE {}

----------------------------------------------------------------------------
(* Capability manager properties, under SpecCaps *)

\* C1: a verify step leaves the registry as it was and returns Ok iff the
\* capability is present, not revoked and required is a subset of its rights;
\* otherwise NotFound when absent, Revoked when present and revoked,
\* PermissionDenied when present, not revoked and required is not a subset.
C1_VerifyContract ==
    [][ last'.op = "verify" =>
          LET c == last'.cap
              r == last'.rights
              res == last'.res
          IN  /\ caps' = caps /\ NEXT_CAP_ID' = NEXT_CAP_ID
              /\ res.ok <=> ( /\ Present(caps, c)
                              /\ ~caps.map[c].revoked
                              /\ SubsetRights(r, caps.map[c].rights) )
              /\ ~Present(caps, c) => res = Err("NotFound")
              /\ (Present(caps, c) /\ caps.map[c].revoked) => res = Err("Revoked")
              /\ ( /\ Present(caps, c)
                   /\ ~caps.map[c].revoked
                   /\ ~SubsetRights(r, caps.map[c].rights) )
                 => res = Err("PermissionDenied")
      ]_vars

\* verify(c, RW) on a live capability that holds READ only: PermissionDenied
C1_Witness ==
    /\ last.op = "verify"
    /\ last.rights = RW
    /\ last.res = Err("PermissionDenied")
    /\ Present(caps, last.cap)
    /\ caps.map[last.cap].rights = READ

\* C2: for every capability for which revoke has returned Ok, verify with any
\* rights set returns Revoked, whatever was called since; and verify on a
\* capability for which revoke has not returned Ok never returns Revoked.
C2_RevocationSticky ==
    /\ \A c \in CapIds, r \in AllRights :
          (verify(caps, c, r) = Err("Revoked")) <=> (c \in revoke_ok)
    /\ last.op = "verify" =>
          ((last.res = Err("Revoked")) <=> (last.cap \in revoke_ok))

\* a revoked capability whose child was minted later, verified with the empty set
C2_Witness ==
    /\ last.op = "verify"
    /\ last.rights = 0
    /\ last.res = Err("Revoked")
    /\ \E c \in DOMAIN parent_of : parent_of[c] = last.cap

\* C3: every capability made by restrict holds a subset of the rights of the
\* parent it was derived from, and so of every ancestor; and no step changes
\* the rights of a capability that is in the registry (or removes it).
C3_RightsMonotone ==
    [][ /\ caps.some =>
             \A c \in DOMAIN caps.map :
                 /\ Present(caps', c)
                 /\ caps'.map[c].rights = caps.map[c].rights
        /\ \A c \in DOMAIN parent_of' :
             \A a \in Ancestors(parent_of', c) :
                 /\ Present(caps', c) /\ Present(caps', a)
                 /\ SubsetRights(caps'.map[c].rights, caps'.map[a].rights)
      ]_vars

\* a chain of two restrictions, RW -> READ -> empty
C3_Witness ==
    \E c \in DOMAIN parent_of :
        /\ parent_of[c] \in DOMAIN parent_of
        /\ caps.map[parent_of[parent_of[c]]].rights = RW
        /\ caps.map[parent_of[c]].rights = READ
        /\ caps.map[c].rights = 0

\* C4 as stated: restrict(p, r) on any capability p of the registry with r not
\* a subset of rights(p) fails with CannotEscalate.
C4_Original ==
    [][ ( /\ last'.op = "restrict"
          /\ Present(caps, last'.cap)
          /\ ~SubsetRights(last'.rights, caps.map[last'.cap].rights) )
        => last'.res = Err("CannotEscalate")
      ]_vars

\* C4, amended: restrict(p, r) with r not a subset of rights(p) always fails
\* and leaves the registry as it was; the error is CannotEscalate when p is
\* present, not revoked and delegatable, Revoked when p is revoked, and
\* NotDelegatable when p is not revoked and not delegatable.
C4_CannotEscalate ==
    [][ ( /\ last'.op = "restrict"
          /\ Present(caps, last'.cap)
          /\ ~SubsetRights(last'.rights, caps.map[last'.cap].rights) )
        => LET p == caps.map[last'.cap] IN
           /\ ~last'.res.ok
           /\ caps' = caps /\ NEXT_CAP_ID' = NEXT_CAP_ID
           /\ (~p.revoked /\ p.delegatable) => last'.res = Err("CannotEscalate")
           /\ p.revoked => last'.res = Err("Revoked")
           /\ (~p.revoked /\ ~p.delegatable) => last'.res = Err("NotDelegatable")
      ]_vars

\* restrict(c, WRITE) on a live delegatable capability holding READ only
C4_Witness ==
    /\ last.op = "restrict"
    /\ last.rights = WRITE
    /\ last.res = Err("CannotEscalate")
    /\ Present(caps, last.cap)
    /\ caps.map[last.cap].rights = READ
    /\ caps.map[last.cap].delegatable

----------------------------------------------------------------------------
(* Gated store properties, under SpecGated *)

GatedOps == {"gated_create", "gated_read", "gated_query_by_tag", "gated_delete"}

\* the right each gated operation is documented to require
RequiredRight(op) ==
    CASE op = "gated_create"       -> {1}
      [] op = "gated_read"         -> {0}
      [] op = "gated_query_by_tag" -> {0}
      [] op = "gated_delete"       -> {3}

\* the capability is in the registry, not revoked, and holds the flags
Authorises(capsv, c, flags) ==
    /\ Present(capsv, c)
    /\ ~capsv.map[c].revoked
    /\ flags \subseteq Bits(capsv.map[c].rights)

IsCapError(res) == ~res.ok /\ res.err[1] = "Cap"

Live(objs, id) == objs.some /\ id \in DOMAIN objs.map

\* C5: a gated call that succeeds, or that changes the store, was made with a
\* CapId that is in the registry, not revoked and holds the right the
\* operation requires; a call presenting a CapId that mint/restrict never
\* returned (all a task without capabilities could present) fails with the
\* capability error NotFound and leaves the store as it was.
C5_NoAmbientAuthority ==
    [][ last'.op \in GatedOps =>
          /\ (last'.res.ok \/ objects' # objects \/ tag_index' # tag_index)
                => Authorises(caps, last'.cap, RequiredRight(last'.op))
          /\ last'.cap >= NEXT_CAP_ID
                => (last'.res = GatedCap("NotFound") /\ UNCHANGED storeVars)
          /\ ~Authorises(caps, last'.cap, RequiredRight(last'.op))
                => ( /\ last'.res \in { GatedCap("NotFound"), GatedCap("Revoked"),
                                        GatedCap("PermissionDenied") }
                     /\ (last'.res = GatedCap("Revoked")) => last'.cap \in revoke_ok )
      ]_vars

\* read of a stored object with a CapId that was never minted: NotFound from
\* the capability layer, although capabilities that would allow it exist
C5_Witness ==
    /\ last.op = "gated_read"
    /\ last.cap >= NEXT_CAP_ID
    /\ last.res = GatedCap("NotFound")
    /\ Live(objects, last.id)
    /\ \E c \in DOMAIN caps.map : Authorises(caps, c, {0})

\* C6: a gated operation whose verify(cap, required right) fails returns that
\* capability error and leaves objects, tag_index and count() as they were;
\* one whose verify passes returns no capability error.
C6_VerifyFirst ==
    [][ last'.op \in GatedOps =>
          LET req == CASE last'.op = "gated_create" -> WRITE
                       [] last'.op = "gated_delete" -> DELETE
                       [] OTHER -> READ
              v == verify(caps, last'.cap, req)
          IN  /\ ~v.ok => /\ last'.res = GatedCap(v.err)
                          /\ objects' = objects
                          /\ tag_index' = tag_index
                          /\ store_count(objects') = store_count(objects)
              /\ v.ok => ~IsCapError(last'.res)
      ]_vars

\* delete through a live RW capability: PermissionDenied, the object still stored
C6_Witness ==
    /\ last.op = "gated_delete"
    /\ last.res = GatedCap("PermissionDenied")
    /\ Present(caps, last.cap)
    /\ caps.map[last.cap].rights = RW
    /\ Live(objects, last.id)
    /\ store_read(objects, tag_index, last.id).res.ok

----------------------------------------------------------------------------
(* Object store properties, under SpecStore *)

\* C7: create of an object whose id is live fails with AlreadyExists and
\* leaves objects, tag_index and count() as they were, whatever its tags and
\* metadata; create of an object whose id is not live returns that id and
\* makes it live; and a live id stays live in every step that is not a
\* delete of it.  So of two creates of one id with no delete of it between
\* them, the second fails when the first succeeded.
C7_DuplicateCreate ==
    [][ /\ last'.op = "create" =>
             IF Live(objects, last'.obj.id)
             THEN /\ last'.res = Err("AlreadyExists")
                  /\ objects' = objects
                  /\ tag_index' = tag_index
                  /\ store_count(objects') = store_count(objects)
             ELSE /\ last'.res = Ok(last'.obj.id)
                  /\ Live(objects', last'.obj.id)
                  /\ store_count(objects') = store_count(objects) + 1
        /\ \A id \in ObjIds :
             (Live(objects, id) /\ ~(last'.op = "delete" /\ last'.id = id))
                => Live(objects', id)
      ]_vars

\* a rejected second create whose tags and metadata differ from the stored object's
C7_Witness ==
    /\ last.op = "create"
    /\ last.res = Err("AlreadyExists")
    /\ Live(objects, last.obj.id)
    /\ objects.map[last.obj.id].content = last.obj.content
    /\ objects.map[last.obj.id].tags # last.obj.tags
    /\ objects.map[last.obj.id].metadata # last.obj.metadata
    /\ last.obj.tags # << >>

\* C8: every stored object is stored under its id, and its id is the hash of
\* its content.
C8_ContentAddressed ==
    objects.some =>
        \A k \in DOMAIN objects.map :
            /\ objects.map[k].id = k
            /\ hash_content(objects.map[k].content) = k

\* C9: for every tag t and id i, i occurs in query_by_tag(t) iff i is a live
\* object whose tags contain t.
C9_TagIndexConsistent ==
    /\ \A t \in TagNames, i \in ObjIds :
          (\E n \in DOMAIN store_query_by_tag(objects, tag_index, t).res :
               store_query_by_tag(objects, tag_index, t).res[n] = i)
          <=> ( /\ Live(objects, i)
                /\ \E n \in DOMAIN objects.map[i].tags : objects.map[i].tags[n] = t )
    /\ tag_index.some =>
          \A t \in DOMAIN tag_index.map :
              \A n \in DOMAIN tag_index.map[t] :
                  /\ Live(objects, tag_index.map[t][n])
                  /\ \E k \in DOMAIN objects.map[tag_index.map[t][n]].tags :
                        objects.map[tag_index.map[t][n]].tags[k] = t
    /\ last.op = "query_by_tag" =>
          \A i \in ObjIds :
              (\E n \in DOMAIN last.res : last.res[n] = i)
              <=> ( /\ Live(objects, i)
                    /\ \E n \in DOMAIN objects.map[i].tags : objects.map[i].tags[n] = last.tag )

\* a query answering two ids after a delete emptied the other tag's list
C9_Witness ==
    /\ last.op = "query_by_tag"
    /\ Len(last.res) = 2
    /\ last.res[1] # last.res[2]
    /\ \E t \in DOMAIN tag_index.map : tag_index.map[t] = << >>

----------------------------------------------------------------------------
(* Scheduler properties, under SpecSched *)

Min(a, b) == IF a <= b THEN a ELSE b

\* the TaskIds spawned
Spawned == { n - 1 : n \in DOMAIN spawned }

\* the steps task u has run among the first i calls
Executed(u, i) == Cardinality({ k \in 1..i : calls[k].task = u })

\* the steps task u still has to run after the first i calls
Remaining(u, i) == spawned[u + 1] - Executed(u, i)

RECURSIVE SumRemaining(_, _)
SumRemaining(us, i) ==
    IF us = {} THEN 0
    ELSE LET u == CHOOSE x \in us : TRUE
         IN  Remaining(u, i) + SumRemaining(us \ {u}, i)

\* calls i and j are consecutive steps of one task
ConsecutiveSteps(i, j) ==
    /\ i < j
    /\ calls[i].task = calls[j].task
    /\ \A k \in (i + 1)..(j - 1) : calls[k].task # calls[i].task

\* C10 as stated: between two consecutive steps of a task T there are exactly
\* min(n - 1, other_remaining) step executions of other tasks, other_remaining
\* being the steps the other tasks still have to run.
C10_Original ==
    \A i \in DOMAIN calls, j \in DOMAIN calls :
        ConsecutiveSteps(i, j) =>
            j - i - 1 = Min(Len(spawned) - 1,
                            SumRemaining(Spawned \ {calls[i].task}, i))

\* C10, amended: between two consecutive steps of a task T, every other task
\* that still has a step to run when the first of the two ends runs exactly
\* one step, and no other task runs; so the number of step executions between
\* them is the number of other unfinished tasks, which is at most
\* min(n - 1, other_remaining).
C10_Interleaving ==
    \A i \in DOMAIN calls, j \in DOMAIN calls :
        ConsecutiveSteps(i, j) =>
            LET T == calls[i].task
                unfinished == { u \in Spawned \ {T} : Remaining(u, i) > 0 }
            IN  /\ j - i - 1 = Cardinality(unfinished)
                /\ \A u \in unfinished :
                      Cardinality({ k \in (i + 1)..(j - 1) : calls[k].task = u }) = 1
                /\ j - i - 1 <= Min(Len(spawned) - 1, SumRemaining(Spawned \ {T}, i))

\* three tasks; two consecutive steps of one with a single step of another
\* between them, the third having finished while the second has two steps left
C10_Witness ==
    /\ Len(spawned) = 3
    /\ \E i \in DOMAIN calls, j \in DOMAIN calls :
          /\ ConsecutiveSteps(i, j)
          /\ j - i - 1 = 1
          /\ SumRemaining(Spawned \ {calls[i].task}, i) = 2

\* the turns a task with s steps takes: one per step, and one for a task
\* spawned with no step at all
TurnsOf(s) == IF s = 0 THEN 1 ELSE s

RECURSIVE SumSteps(_)
SumSteps(ss) == IF ss = << >> THEN 0 ELSE Head(ss) + SumSteps(Tail(ss))

RECURSIVE SumTurns(_)
SumTurns(ss) == IF ss = << >> THEN 0 ELSE TurnsOf(Head(ss)) + SumTurns(Tail(ss))

\* the turns the queued tasks still take
RECURSIVE TurnsLeft(_)
TurnsLeft(q) ==
    IF q = << >> THEN 0
    ELSE TurnsOf(Head(q).total_steps - Head(q).current_step) + TurnsLeft(Tail(q))

\* C11 as stated: run() ends with an empty queue after exactly s1 + ... + sn
\* turns, for any step counts, 0 included.
C11_Original ==
    pc = "done" => (tasks = << >> /\ turns = SumSteps(spawned))

\* C11, amended: run() ends with an empty queue after exactly one turn per
\* step plus one turn per task spawned with zero steps, having called step_fn
\* s1 + ... + sn times; between turns the turns taken and the turns the queue
\* still needs add up to that total, so the loop cannot go on for ever.
C11_TurnCount ==
    /\ pc = "loop" => turns + TurnsLeft(tasks) = SumTurns(spawned)
    /\ pc = "done" => /\ tasks = << >>
                      /\ turns = SumTurns(spawned)
                      /\ Len(calls) = SumSteps(spawned)

\* run() has returned after three tasks, one of them spawned with no step
C11_Witness ==
    /\ pc = "done"
    /\ Len(spawned) = 3
    /\ \E n \in DOMAIN spawned : spawned[n] = 0
    /\ \E n \in DOMAIN spawned : spawned[n] > 1

\* C13: a revoke step that returns Ok sets the revoked flag of the capability
\* named and nothing else: the registry keeps its CapIds, every other
\* capability (its children and its parent among them) keeps its resource,
\* rights, delegatable and revoked fields, and so verifies as it did before;
\* a revoke step that returns NotFound changes no capability.
C13_RevokePointwise ==
    [][ last'.op = "revoke" =>
          LET c == last'.cap IN
          /\ NEXT_CAP_ID' = NEXT_CAP_ID
          /\ last'.res = Ok(Unit) =>
                /\ Present(caps, c)
                /\ DOMAIN caps'.map = DOMAIN caps.map
                /\ caps'.map[c] = [caps.map[c] EXCEPT !.revoked = TRUE]
                /\ \A d \in DOMAIN caps.map \ {c} :
                      /\ caps'.map[d] = caps.map[d]
                      /\ \A r \in AllRights :
                            verify(caps', d, r) = verify(caps, d, r)
          /\ last'.res # Ok(Unit) =>
                /\ last'.res = Err("NotFound")
                /\ ~Present(caps, c)
                /\ caps.some => caps' = caps
      ]_vars

\* a parent was revoked after its child was derived, and the child, on the
\* same resource, is still not revoked
C13_Witness ==
    /\ last.op = "revoke"
    /\ last.res = Ok(Unit)
    /\ \E d \in DOMAIN parent_of :
          /\ parent_of[d] = last.cap
          /\ caps.map[d].resource = caps.map[last.cap].resource
          /\ ~caps.map[d].revoked
          /\ verify(caps, d, caps.map[d].rights) = Ok(Unit)

\* C14: a restrict step that returns Ok(id) adds exactly one capability to the
\* registry, under a CapId that was not in it: it has the parent's resource,
\* rights equal to the rights asked for, the parent's delegatable flag and
\* revoked = false; the parent and every other capability stay as they were.
C14_RestrictShape ==
    [][ (last'.op = "restrict" /\ last'.res.ok) =>
          LET p  == last'.cap
              id == last'.res.val
          IN  /\ Present(caps, p)
              /\ id \notin DOMAIN caps.map
              /\ DOMAIN caps'.map = DOMAIN caps.map \cup {id}
              /\ caps'.map[id].id = id
              /\ caps'.map[id].resource = caps.map[p].resource
              /\ caps'.map[id].rights = last'.rights
              /\ caps'.map[id].delegatable = caps.map[p].delegatable
              /\ caps'.map[id].revoked = FALSE
              /\ \A d \in DOMAIN caps.map : caps'.map[d] = caps.map[d]
      ]_vars

\* restrict(p, READ) succeeded on a delegatable RW capability that is not the
\* only one in the registry
C14_Witness ==
    /\ last.op = "restrict"
    /\ last.res.ok
    /\ last.rights = READ
    /\ caps.map[last.cap].rights = RW
    /\ caps.map[last.res.val].delegatable
    /\ Cardinality(DOMAIN caps.map) = 3

\* C18: the CapIds of the registry are exactly 1 .. NEXT_CAP_ID - 1, the ids
\* returned so far; a mint or restrict step that returns Ok(id) returns the
\* counter's value, which is 1 for the first and greater than every CapId
\* returned before, advances the counter by one, and inserts under an id that
\* was not in the registry, so that no entry is overwritten.
C18_CapIdFresh ==
    [][ /\ caps'.some => DOMAIN caps'.map = 1..(NEXT_CAP_ID' - 1)
        /\ (last'.op \in {"mint", "restrict"} /\ last'.res.ok) =>
              LET id  == last'.res.val
                  old == IF caps.some THEN DOMAIN caps.map ELSE {}
              IN  /\ id = NEXT_CAP_ID
                  /\ NEXT_CAP_ID' = id + 1
                  /\ old = {} => id = 1
                  /\ id \notin old
                  /\ \A d \in old : d < id /\ caps'.map[d] = caps.map[d]
                  /\ DOMAIN caps'.map = old \cup {id}
      ]_vars

\* the third CapId was returned by restrict, after two by mint
C18_Witness ==
    /\ last.op = "restrict"
    /\ last.res = Ok(3)
    /\ parent_of = MapInsert(<< >>, 3, 1)
    /\ DOMAIN caps.map = {1, 2, 3}

\* C15: a create step that returns Ok stores the object as given, and a live
\* object is never altered; a read step leaves the store as it was and
\* returns the stored object (same id, content, tags and metadata) when its
\* id is live, NotFound otherwise; a delete step on a live id returns Ok,
\* after which read of it is NotFound, count() is one less and the other
\* objects are kept; a delete step on an id that is not live returns NotFound
\* and leaves the store and count() as they were.
C15_RoundTrip ==
    [][ /\ (last'.op = "create" /\ last'.res.ok) =>
              /\ objects'.map[last'.obj.id] = last'.obj
              /\ store_read(objects', tag_index', last'.obj.id).res = Ok(last'.obj)
        /\ \A id \in ObjIds :
              (Live(objects, id) /\ Live(objects', id)) =>
                  objects'.map[id] = objects.map[id]
        /\ last'.op = "read" =>
              /\ objects' = objects /\ tag_index' = tag_index
              /\ IF Live(objects, last'.id)
                 THEN /\ last'.res = Ok(objects.map[last'.id])
                      /\ last'.res.val.id = last'.id
                 ELSE last'.res = Err("NotFound")
        /\ last'.op = "delete" =>
              IF Live(objects, last'.id)
              THEN /\ last'.res = Ok(Unit)
                   /\ ~Live(objects', last'.id)
                   /\ store_read(objects', tag_index', last'.id).res = Err("NotFound")
                   /\ store_count(objects') = store_count(objects) - 1
                   /\ \A id \in ObjIds \ {last'.id} :
                         Live(objects, id) => Live(objects', id)
              ELSE /\ last'.res = Err("NotFound")
                   /\ store_count(objects') = store_count(objects)
                   /\ objects.some => objects' = objects
                   /\ tag_index' = tag_index
      ]_vars

\* a delete that returned NotFound on a store that is empty again: the
\* objects created were deleted before, and the tag index shows it
C15_Witness ==
    /\ last.op = "delete"
    /\ last.res = Err("NotFound")
    /\ objects.some
    /\ store_count(objects) = 0
    /\ tag_index.some
    /\ "greeting" \in DOMAIN tag_index.map
    /\ tag_index.map["greeting"] = << >>

----------------------------------------------------------------------------
(* Capability passing and task invariants, under SpecSched *)

\* C16: every step_fn invocation is made with two arguments, the step index
\* and the capability list of the task it belongs to.
C16_CapabilityPassing ==
    \A k \in DOMAIN calls :
        /\ Len(calls[k].args) = 2
        /\ calls[k].args[1] = Executed(calls[k].task, k - 1)

\* the tasks that exist: the queued ones, the popped one, and the one the last
\* turn completed
QueuedTasks == { tasks[n] : n \in DOMAIN tasks }
PoppedTasks == IF task = << >> THEN {} ELSE {task}
DoneTasks   == IF last.op = "completed" THEN {last.task} ELSE {}
AllTasks    == QueuedTasks \cup PoppedTasks \cup DoneTasks

\* C17 as stated: every task has current_step <= total_steps, is Done iff
\* current_step = total_steps, and is Running only while it is the popped
\* task, every queued task being Ready.
C17_Original ==
    /\ \A t \in AllTasks :
          /\ t.current_step <= t.total_steps
          /\ (t.state = "Done") <=> (t.current_step = t.total_steps)
    /\ \A t \in QueuedTasks : t.state = "Ready"
    /\ \A t \in AllTasks : t.state = "Running" => t \in PoppedTasks

\* C17, amended: every task has current_step <= total_steps; a Done task has
\* current_step = total_steps; every queued task is Ready, and has steps left
\* unless it was spawned with none; the popped task, and only it, is Running,
\* and it has current_step = total_steps only between its last step and the
\* end of its turn, or when it was spawned with no step.
C17_TaskInvariants ==
    /\ \A t \in AllTasks :
          /\ t.current_step <= t.total_steps
          /\ t.state = "Done" => t.current_step = t.total_steps
          /\ t.state = "Running" <=> t \in PoppedTasks
    /\ \A t \in QueuedTasks :
          /\ t.state = "Ready"
          /\ t.current_step = t.total_steps => t.total_steps = 0
    /\ \A t \in PoppedTasks :
          t.current_step = t.total_steps => (pc = "requeue" \/ t.total_steps = 0)
    /\ \A t \in DoneTasks : t.state = "Done"
    /\ (pc \in {"step", "requeue"}) <=> (task # << >>)

\* the popped task has run its last step and is still Running, while a task
\* spawned with no step waits in the queue, Ready
C17_Witness ==
    /\ pc = "requeue"
    /\ task.state = "Running"
    /\ task.current_step = task.total_steps
    /\ task.total_steps >= 1
    /\ \E t \in QueuedTasks : t.total_steps = 0 /\ t.state = "Ready"

----------------------------------------------------------------------------
(* Fuel, interrupt handlers and spin-mutexes, under SpecIrq *)

\* C12: after k timer_tick calls with no refuel since the counter was at
\* DEFAULT_FUEL, fuel_remaining is max(0, DEFAULT_FUEL - k): it stops at 0 and
\* never wraps below it.
C12_FuelSaturates ==
    /\ FUEL_REMAINING = (IF ticked >= DEFAULT_FUEL THEN 0 ELSE DEFAULT_FUEL - ticked)
    /\ FUEL_REMAINING \in 0..DEFAULT_FUEL
    /\ fuel_exhausted(FUEL_REMAINING) <=> ticked >= DEFAULT_FUEL

\* timer_tick was called more than DEFAULT_FUEL times since the last refuel
C12_Witness ==
    /\ ticked > DEFAULT_FUEL
    /\ FUEL_REMAINING = 0
    /\ isr = "t_eoi"

\* the positions inside timer_handler
TimerStages == {"t_ticks", "t_fuel", "t_sub", "t_eoi", "t_ret"}

\* C19: from its entry to its return the timer handler adds one to TICKS,
\* takes one from FUEL_REMAINING unless it is 0, and writes the EOI that ends
\* the IRQ in service; none of its steps takes, waits for or releases a
\* spin-mutex, so each is enabled whatever the interrupted flow holds, and
\* the interrupted flow is where it was when the handler returns.
C19_TimerIsr ==
    /\ [][ /\ isr \in TimerStages =>
                 /\ locks' = locks
                 /\ print_pc' = print_pc /\ boot' = boot
                 /\ isr' # isr
           /\ (isr = "none" /\ isr' = "t_ticks") => in_service' = "timer"
           /\ (isr = "t_ticks" /\ isr' # isr) => (TICKS' = TICKS + 1 /\ isr' = "t_fuel")
           /\ (isr = "t_fuel" /\ isr' # isr) =>
                 /\ FUEL_REMAINING' = FUEL_REMAINING
                 /\ isr' = "t_sub"
           /\ (isr = "t_sub" /\ isr' # isr) =>
                 /\ FUEL_REMAINING' = (IF FUEL_REMAINING = 0 THEN 0 ELSE FUEL_REMAINING - 1)
                 /\ isr' = "t_eoi"
           /\ (isr = "t_eoi" /\ isr' # isr) => (in_service' = "none" /\ isr' = "t_ret")
           /\ (isr = "t_ret" /\ isr' # isr) =>
                 /\ isr' = "none" /\ in_service = "none"
                 /\ interrupts_enabled'
         ]_vars
    /\ [](/\ isr = "t_ticks" => ENABLED TimerCount
          /\ isr = "t_fuel"  => ENABLED TimerFuelLoad
          /\ isr = "t_sub"   => ENABLED TimerFuel
          /\ isr = "t_eoi"   => ENABLED TimerEoi
          /\ isr = "t_ret"   => ENABLED TimerReturn)

\* the timer handler has done its work, with the fuel already at 0, after
\* interrupting a registry operation that holds MANAGER
C19_Witness ==
    /\ isr = "t_ret"
    /\ locks.MANAGER = "main"
    /\ TICKS > DEFAULT_FUEL
    /\ FUEL_REMAINING = 0
    /\ in_service = "none"

\* the spin-mutexes an interrupt handler takes
IsrMutexes == {"SERIAL1", "KEYBOARD"}

\* C20: an interrupt handler takes no spin-mutex but SERIAL1 and KEYBOARD, and
\* the main flow never holds one of these two while interrupts are enabled,
\* so a handler that comes to take one finds it free; _print holds SERIAL1
\* only with interrupts disabled, and when it returns the interrupt flag is
\* what it was when _print was entered.
C20_IsrLockFreedom ==
    /\ [](/\ \A m \in DOMAIN locks :
                /\ locks[m] = "isr" => m \in IsrMutexes
                /\ (m \in IsrMutexes /\ locks[m] = "main") => ~interrupts_enabled
          /\ locks.KEYBOARD # "main"
          /\ isr = "k_lock" => ENABLED KeyLock
          /\ (isr = "k_print" /\ print_pc["isr"] = "lock") => ENABLED PrintLock("isr")
          /\ \A c \in DOMAIN print_pc :
                /\ print_pc[c] # "none" => ~interrupts_enabled
                /\ print_pc[c] = "write" <=> (locks.SERIAL1 = c /\ boot # "serial_locked"))
    /\ [][ \A c \in DOMAIN print_pc :
              /\ (print_pc[c] = "none" /\ print_pc'[c] # "none") =>
                    saved'[c] = interrupts_enabled
              /\ (print_pc[c] # "none" /\ print_pc'[c] # "none") =>
                    saved'[c] = saved[c]
              /\ (print_pc[c] # "none" /\ print_pc'[c] = "none") =>
                    interrupts_enabled' = saved[c]
         ]_vars

\* the main flow is inside _print, holding SERIAL1 with interrupts disabled,
\* having found them enabled, after the timer had interrupted
C20_Witness ==
    /\ locks.SERIAL1 = "main"
    /\ print_pc["main"] = "write"
    /\ saved["main"]
    /\ ~interrupts_enabled
    /\ TICKS > 0

----------------------------------------------------------------------------
(* Order of restrict's checks and the delegatable flag, under SpecCaps *)

\* C23: a restrict step returns NotFound when the parent is absent; else
\* Revoked when it is revoked, whatever its delegatable flag and the rights
\* asked for; else NotDelegatable when its delegatable flag is false, even
\* for rights equal to its own; else CannotEscalate when the rights asked for
\* are not a subset of its rights; else it succeeds.
C23_RestrictErrorOrder ==
    [][ last'.op = "restrict" =>
          LET p == last'.cap
              r == last'.rights
          IN  IF ~Present(caps, p) THEN last'.res = Err("NotFound")
              ELSE IF caps.map[p].revoked THEN last'.res = Err("Revoked")
              ELSE IF ~caps.map[p].delegatable THEN last'.res = Err("NotDelegatable")
              ELSE IF ~SubsetRights(r, caps.map[p].rights)
                   THEN last'.res = Err("CannotEscalate")
              ELSE last'.res.ok
      ]_vars

\* restrict on a revoked parent that is not delegatable either, for a right
\* it does not hold: Revoked
C23_Witness ==
    /\ last.op = "restrict"
    /\ last.res = Err("Revoked")
    /\ ~caps.map[last.cap].delegatable
    /\ ~SubsetRights(last.rights, caps.map[last.cap].rights)

\* the capabilities made by restrict, and the parents they were made from
Derived == DOMAIN parent_of
Parents == { parent_of[c] : c \in DOMAIN parent_of }

\* C27: every capability made by restrict is delegatable, and so is its
\* parent; a capability that is not delegatable was made by mint and nothing
\* was derived from it; and restrict on a derived capability that is not
\* revoked passes its checks for every subset of that capability's rights.
C27_DerivedDelegatable ==
    /\ \A c \in Derived :
          /\ Present(caps, c) /\ Present(caps, parent_of[c])
          /\ caps.map[c].delegatable
          /\ caps.map[parent_of[c]].delegatable
          /\ ~caps.map[c].revoked =>
                \A r \in AllRights :
                    SubsetRights(r, caps.map[c].rights) => restrict_check(caps, c, r).ok
    /\ caps.some =>
          \A c \in DOMAIN caps.map :
              ~caps.map[c].delegatable => (c \notin Derived /\ c \notin Parents)

\* a derived capability that is not revoked, next to a minted one that is
\* not delegatable and on which restrict was tried last
C27_Witness ==
    /\ \E c \in Derived : ~caps.map[c].revoked /\ caps.map[c].rights = READ
    /\ last.op = "restrict"
    /\ last.res = Err("NotDelegatable")
    /\ Present(caps, last.cap)
    /\ ~caps.map[last.cap].delegatable

----------------------------------------------------------------------------
(* The gated store and the capability's resource, under SpecGated *)

\* a Resource of each kind, caps/mod.rs:72-81
Cpu18 == [kind |-> "Cpu", ticks |-> 18]

\* the registry with every capability put on the one resource
WithResource(capsv, resource) ==
    IF capsv.some
    THEN Some([c \in DOMAIN capsv.map |-> [capsv.map[c] EXCEPT !.resource = resource]])
    ELSE capsv

\* the argument of the gated call recorded in l
GatedArg(l) ==
    CASE l.op = "gated_create"       -> l.obj
      [] l.op = "gated_read"         -> l.id
      [] l.op = "gated_query_by_tag" -> l.tag
      [] l.op = "gated_delete"       -> l.id

\* the outcome of gated operation op presenting c with argument x
GatedOutcome(op, capsv, objs, idx, c, x) ==
    CASE op = "gated_create"       -> gated_create(capsv, objs, idx, c, x)
      [] op = "gated_read"         -> gated_read(capsv, objs, idx, c, x)
      [] op = "gated_query_by_tag" -> gated_query_by_tag(capsv, objs, idx, c, x)
      [] op = "gated_delete"       -> gated_delete(capsv, objs, idx, c, x)

\* capabilities c and d agree on presence, revoked flag and rights
SameAuthority(capsv, c, d) ==
    /\ Present(capsv, c) <=> Present(capsv, d)
    /\ Present(capsv, c) =>
          /\ capsv.map[c].revoked = capsv.map[d].revoked
          /\ capsv.map[c].rights = capsv.map[d].rights

\* a resource of another kind than that of the capability presented
OtherResource(capsv, c) ==
    IF Present(capsv, c) /\ capsv.map[c].resource.kind = "Cpu" THEN Object0 ELSE Cpu18

\* C26: the result and the store effect of every gated step are those the
\* same call has when the capabilities of the registry are all put on a
\* resource of another kind, and those the same call has presenting any
\* capability of the registry with the same rights and revoked flag.
C26_ResourceIndependent ==
    [][ last'.op \in GatedOps =>
          LET c == last'.cap
              x == GatedArg(last')
              same(out) == out = StoreOut(objects', tag_index', last'.res)
          IN  /\ same(GatedOutcome(last'.op, WithResource(caps, OtherResource(caps, c)),
                                   objects, tag_index, c, x))
              /\ \A d \in CapIds \ {c} :
                    (Present(caps, c) /\ SameAuthority(caps, c, d)) =>
                        same(GatedOutcome(last'.op, caps, objects, tag_index, d, x))
      ]_vars

\* a read that succeeded on a Memory capability, while the registry holds an
\* Object capability with the same rights and revoked flag
C26_Witness ==
    /\ last.op = "gated_read"
    /\ last.res.ok
    /\ caps.map[last.cap].resource = Memory4K
    /\ \E d \in DOMAIN caps.map :
          /\ caps.map[d].resource = Object0
          /\ SameAuthority(caps, last.cap, d)

\* the store before its first use, and the store holding every object of
\* GatedObjects
EmptyStore == StoreOut(None, None, Unit)
RECURSIVE CreateAll(_, _)
CreateAll(st, objs) ==
    IF objs = {} THEN st
    ELSE LET o == CHOOSE x \in objs : TRUE
         IN  CreateAll(store_create(st.objects, st.tag_index, o), objs \ {o})
FullStore == CreateAll(EmptyStore, GatedObjects)

\* C29: a gated step whose capability is absent, revoked or lacks the right
\* the operation requires returns a capability error and leaves the store as
\* it was; the same call returns the same error, and changes nothing, on the
\* store that holds no object and on the store that holds every object, so
\* that the caller learns nothing of what the store holds.
C29_NoStoreLeak ==
    [][ ( /\ last'.op \in GatedOps
          /\ ~Authorises(caps, last'.cap, RequiredRight(last'.op)) )
        => /\ IsCapError(last'.res)
           /\ objects' = objects /\ tag_index' = tag_index
           /\ \A st \in {EmptyStore, FullStore} :
                 GatedOutcome(last'.op, caps, st.objects, st.tag_index,
                              last'.cap, GatedArg(last'))
                    = StoreOut(st.objects, st.tag_index, last'.res)
      ]_vars

\* a delete refused for want of the DELETE right, on an object that exists
C29_Witness ==
    /\ last.op = "gated_delete"
    /\ last.res = GatedCap("PermissionDenied")
    /\ Live(objects, last.id)
    /\ caps.map[last.cap].rights = RW

----------------------------------------------------------------------------
(* Multiplicity in the tag index, under SpecStore *)

\* how many times x occurs in the sequence s
Occurrences(s, x) == Cardinality({ n \in DOMAIN s : s[n] = x })

\* the live objects whose tags contain t
LiveTagged(t) ==
    { i \in ObjIds : Live(objects, i) /\ Occurrences(objects.map[i].tags, t) > 0 }

\* C28 as stated: query_by_tag(t) holds no ObjId more than once, whatever the
\* with_tag calls that built the objects, and its length is the number of
\* live objects tagged t.
C28_Original ==
    \A t \in TagNames :
        LET q == store_query_by_tag(objects, tag_index, t).res
        IN  /\ \A i \in ObjIds : Occurrences(q, i) <= 1
            /\ Len(q) = Cardinality(LiveTagged(t))

\* C28, amended: query_by_tag(t) holds the id of a live object as many times
\* as t occurs in the object's tags and no other id; so it holds no id twice,
\* and has as many entries as there are live objects tagged t, as long as no
\* live object was built with the same tag added twice.
C28_TagMultiplicity ==
    \A t \in TagNames :
        LET q == store_query_by_tag(objects, tag_index, t).res
        IN  /\ \A i \in ObjIds :
                  Occurrences(q, i) =
                      (IF Live(objects, i) THEN Occurrences(objects.map[i].tags, t) ELSE 0)
            /\ (\A i \in LiveTagged(t) : Occurrences(objects.map[i].tags, t) = 1)
                  => /\ \A i \in ObjIds : Occurrences(q, i) <= 1
                     /\ Len(q) = Cardinality(LiveTagged(t))

\* an object built with the same tag added twice was deleted, and another
\* built the same way is live: its id is twice in query_by_tag
C28_Witness ==
    /\ last.op = "create"
    /\ last.res.ok
    /\ last.obj.tags = << "greeting", "greeting" >>
    /\ store_query_by_tag(objects, tag_index, "greeting").res
          = << last.obj.id, last.obj.id >>
    /\ store_count(objects) = 1
    /\ "config" \in DOMAIN tag_index.map

----------------------------------------------------------------------------
(* Round-robin order, under SpecSched *)

\* the tasks that still have a step to run after the first i calls
Unfinished(i) == { u \in Spawned : Remaining(u, i) > 0 }

\* the unfinished task that follows task u in spawn order, cyclically
NextInOrder(u, i) ==
    LET later == { v \in Unfinished(i) : v > u }
    IN  IF later # {} THEN CHOOSE v \in later : \A w \in later : v <= w
        ELSE CHOOSE v \in Unfinished(i) : \A w \in Unfinished(i) : v <= w

\* the tasks spawned with no step that have had their turn
ZeroStepTurns ==
    { u \in Spawned : /\ spawned[u + 1] = 0
                      /\ \A n \in DOMAIN tasks : tasks[n].id # u
                      /\ (task = << >> \/ task.id # u) }

\* the call sequence as pairs (task name, step index)
CallPairs == [k \in DOMAIN calls |-> << calls[k].step_fn, calls[k].args[1] >>]

\* the order of the calls: each call has the step index equal to the steps
\* its task has run before, the first call is the first task with a step, and
\* each next call is the next unfinished task in spawn order
CallOrder ==
    /\ \A k \in DOMAIN calls :
          /\ calls[k].args[1] = Executed(calls[k].task, k - 1)
          /\ calls[k].args[1] < spawned[calls[k].task + 1]
          /\ calls[k].task = (IF k = 1 THEN NextInOrder(-1, 0)
                              ELSE NextInOrder(calls[k - 1].task, k - 1))
    /\ pc = "done" => \A u \in Spawned : Executed(u, Len(calls)) = spawned[u + 1]
    /\ (pc = "done" /\ spawned = << 3, 2 >>) =>
          CallPairs = << << "A", 0 >>, << "B", 0 >>, << "A", 1 >>, << "B", 1 >>,
                         << "A", 2 >> >>

\* the queue between turns: the unfinished tasks, the one that ran last at the back
QueueOrder ==
    pc = "loop" =>
        \A n \in DOMAIN tasks :
            /\ tasks[n].current_step = Executed(tasks[n].id, Len(calls))
            /\ ( /\ n < Len(tasks)
                 /\ tasks[n].total_steps > 0
                 /\ tasks[n + 1].total_steps > 0 )
               => tasks[n + 1].id = NextInOrder(tasks[n].id, Len(calls))

\* C24 as stated: every turn runs exactly one step of the task it pops, and
\* the calls come in round-robin order.
C24_Original ==
    /\ pc = "loop" => turns = Len(calls)
    /\ CallOrder

\* C24, amended: every turn runs one step of the task it pops, with the step
\* index equal to the steps the task has run, except the one turn of a task
\* spawned with no step, which runs none; the calls cycle through the
\* unfinished tasks in spawn order, each task seeing 0, 1, ..., total_steps-1
\* once each, and A (3 steps), B (2 steps) give (A,0) (B,0) (A,1) (B,1) (A,2).
C24_FifoOrder ==
    /\ pc = "loop" => turns = Len(calls) + Cardinality(ZeroStepTurns)
    /\ CallOrder
    /\ QueueOrder

\* run() has returned for A (3 steps) and B (2 steps)
C24_Witness ==
    /\ pc = "done"
    /\ spawned = << 3, 2 >>
    /\ Len(calls) = 5
    /\ turns = 5

\* C25: however timer interrupts interleave with the refuel of the scheduler
\* turns, the fuel counter stays within 0..DEFAULT_FUEL and fuel_exhausted()
\* is true exactly when it is 0: a refuel is a step of the main flow, so none
\* falls between the load and the fetch_sub of a timer_tick, the fetch_sub
\* acts on the value loaded, and the counter changes only by a refuel to
\* DEFAULT_FUEL or by a timer_tick taking one from a positive value.
C25_FuelInterleaving ==
    /\ [](/\ FUEL_REMAINING >= 0 /\ FUEL_REMAINING <= DEFAULT_FUEL
          /\ fuel_exhausted(FUEL_REMAINING) = (FUEL_REMAINING = 0)
          /\ isr = "t_sub" => tick_remaining = FUEL_REMAINING)
    /\ [][ /\ FUEL_REMAINING' # FUEL_REMAINING =>
                 \/ /\ isr = "none" /\ isr' = "none"
                    /\ FUEL_REMAINING' = DEFAULT_FUEL
                 \/ /\ isr = "t_sub"
                    /\ FUEL_REMAINING > 0
                    /\ FUEL_REMAINING' = FUEL_REMAINING - 1
           /\ (isr = "t_sub" /\ isr' # isr /\ FUEL_REMAINING = 0) =>
                 FUEL_REMAINING' = 0
           /\ (isr = "none" /\ ticked' = 0 /\ ticked > 0) =>
                 FUEL_REMAINING' = DEFAULT_FUEL
         ]_vars

\* a timer_tick about to subtract from a counter that a refuel has raised
\* again after it had been run down to 0 by earlier ticks
C25_Witness ==
    /\ isr = "t_sub"
    /\ TICKS > DEFAULT_FUEL + 1
    /\ ticked = 1
    /\ tick_remaining = DEFAULT_FUEL - 1
    /\ FUEL_REMAINING = DEFAULT_FUEL - 1

----------------------------------------------------------------------------
(* Frame allocator properties, under SpecFrames *)

\* the page-aligned addresses of the modelled memory
PageAddrs == { p * FRAME_SIZE : p \in 0..MaxPages }

\* the 4 KiB frames lying within a region
FramesIn(r) == { f \in PageAddrs : r.start <= f /\ f + FRAME_SIZE <= r.end }

\* the number of frames the Usable regions before the i-th give
RECURSIVE FramesBefore(_, _)
FramesBefore(m, i) ==
    IF i <= 1 THEN 0
    ELSE FramesBefore(m, i - 1)
         + (IF m[i - 1].kind = "Usable" THEN Cardinality(FramesIn(m[i - 1])) ELSE 0)

NonOverlapping(m) ==
    \A i, j \in 1..Len(m) :
        i < j => (m[i].end <= m[j].start \/ m[j].end <= m[i].start)

\* C22: the call of allocate_frame made after n earlier ones returns the
\* (n+1)-th frame of the Usable regions, counted region by region in the order
\* of the memory map and by ascending address within a region, and None when
\* there are not that many; next advances by one and the map stays as it is;
\* once a call has returned None so does every later one; and if the regions
\* of the map do not overlap, the frame lies in no region of another kind and
\* was not returned by an earlier call.
C22_FrameAllocator ==
    [][ last'.op = "allocate_frame" =>
          LET m   == memory_regions
              n   == next
              res == last'.res
          IN  /\ next' = n + 1
              /\ n = Len(allocated)
              /\ memory_regions' = m
              /\ allocated' = Append(allocated, res)
              /\ IF n < FramesBefore(m, Len(m) + 1)
                 THEN /\ res.some
                      /\ \E i \in 1..Len(m) :
                            /\ m[i].kind = "Usable"
                            /\ FramesBefore(m, i) <= n
                            /\ n < FramesBefore(m, i + 1)
                            /\ res.frame \in FramesIn(m[i])
                            /\ Cardinality({ g \in FramesIn(m[i]) : g < res.frame })
                                   = n - FramesBefore(m, i)
                 ELSE res = NoFrame
              /\ (n > 0 /\ allocated[n] = NoFrame) => res = NoFrame
              /\ (NonOverlapping(m) /\ res.some) =>
                    /\ \A i \in 1..Len(m) :
                          m[i].kind # "Usable" => res.frame \notin FramesIn(m[i])
                    /\ \A k \in 1..n : allocated[k] # res
      ]_vars

\* a map whose second Usable region lies below the first: three calls have returned the frame of the first region, the frame of the
\* second, and None
C22_Witness ==
    /\ memory_regions =
          << [start |-> FRAME_SIZE, end |-> 2 * FRAME_SIZE, kind |-> "Usable"],
             [start |-> 0, end |-> FRAME_SIZE, kind |-> "Usable"] >>
    /\ allocated = << SomeFrame(FRAME_SIZE), SomeFrame(0), NoFrame >>
    /\ next = 3

----------------------------------------------------------------------------
(* Panic discipline, under SpecPanic *)

\* one step of the panic handler
HandlerStep ==
    \/ PanicDisable
    \/ PrintBegin("panic")
    \/ PrintLock("panic")
    \/ PrintWrite("panic")
    \/ PrintEnd("panic")

\* C21: wherever a panic is raised, a diagnostic write in progress included,
\* the handler disables interrupts, makes its three prints in order and comes
\* to the hlt loop, no step of it ever waiting for something that cannot
\* come; from the disabling of interrupts on they stay disabled and no
\* interrupt handler runs, and nothing happens once the hlt loop is reached.
C21_PanicDiscipline ==
    /\ []((panic \notin {"none", "hlt"} /\ HandlerRuns) => ENABLED HandlerStep)
    /\ [](panic \notin {"none", "disable"} =>
             /\ ~interrupts_enabled
             /\ panicked = "main" => isr = "none")
    /\ [][ /\ panic' # panic =>
                 \/ panic = "none" /\ panic' = "disable"
                 \/ panic = "disable" /\ panic' = "println1" /\ ~interrupts_enabled'
                 \/ /\ panic \in PanicPrints
                    /\ panic' = after_println(panic)
                    /\ print_pc["panic"] = "restore"
           /\ panic \notin {"none", "disable"} =>
                 /\ isr' = isr /\ TICKS' = TICKS /\ in_service' = in_service
                 /\ FUEL_REMAINING' = FUEL_REMAINING
           /\ panic = "hlt" => FALSE
         ]_vars

====
